---- MODULE Spec2Model ----
(***************************************************************************)
(* A model of the ELPP Antelope gateway: the channel decoder engine of     *)
(* decoder.js, the transaction reassembler of decoder-antelope.js and the  *)
(* dispatch queue of antelope-server.js.                                   *)
(*                                                                         *)
(* Payloads are plain arrays of bytes, as the encoder produces them and as *)
(* the reassembler's own test hands them to the engine.  An optional value *)
(* (a JavaScript field that is null until set) is the empty tuple when     *)
(* null and a one-element tuple when set.                                  *)
(***************************************************************************)
EXTENDS Integers, Sequences, FiniteSets, TLC

\* ------------------------------------------------------------------------
\* Bounds of the model.
\* ------------------------------------------------------------------------
\* Largest number of channel frames in one uplink payload of Spec.
MaxFrags == 2
\* Uplinks are accepted while fewer than MaxQueue transactions were emitted.
MaxQueue == 1
\* Largest number of items pushed to the dispatch queues.
MaxItems == 3
\* Largest number of runs of the TAPOS manager in SpecTapos.
MaxTicks == 2
\* Largest number of get_info requests without a response in SpecTapos.
MaxPending == 1

\* SpecTimers: the get_info requests that may wait for their reply at a time.
MaxOverdue == 2

\* SpecTimers: the runs of the manager, the first run of each chain included.
MaxRuns == 3

\* SpecCodec: the primitives of a schema, and the bytes of a payload of
\* sensor channels.
MaxFields == 2

MaxBytes == 5

\* ------------------------------------------------------------------------
\* 32-bit integer arithmetic of the JavaScript bit operators.
\* ------------------------------------------------------------------------
\* A number of the bit operators is a signed 32-bit integer.
Pow2(n) == 2 ^ n

MinInt32 == -2147483647 - 1

\* The low 31 bits of x, and whether bit 31 of x is set.
Low31(x) == IF x >= 0 THEN x ELSE x - MinInt32

\* The 32-bit integer with the given low 31 bits and bit 31.
Int32Of(low, top) == IF top THEN low + MinInt32 ELSE low

RECURSIVE BitOrNat(_, _)
BitOrNat(a, b) ==
    IF a = 0 THEN b
    ELSE IF b = 0 THEN a
    ELSE (IF a % 2 = 1 \/ b % 2 = 1 THEN 1 ELSE 0) + 2 * BitOrNat(a \div 2, b \div 2)

\* a | b
Or32(a, b) == Int32Of(BitOrNat(Low31(a), Low31(b)), a < 0 \/ b < 0)

\* a << n: the shift count is taken modulo 32 and the bits shifted past
\* bit 31 are lost.
Shl32(a, n) ==
    LET s == n % 32
        kept == IF s = 1 THEN Low31(a) ELSE Low31(a) % Pow2(32 - s)
    IN  IF s = 0 THEN a
        ELSE Int32Of((kept % Pow2(31 - s)) * Pow2(s), kept >= Pow2(31 - s))
\* a >>> n for n in 1 .. 31: the bits of a, taken as unsigned, shifted right.
UShr32(a, n) ==
    IF a >= 0 THEN a \div Pow2(n) ELSE (Low31(a) \div Pow2(n)) + Pow2(31 - n)

\* a >> n for n in 0 .. 31: the sign bit is copied in.
Sar32(a, n) ==
    IF n = 31 THEN (IF a < 0 THEN -1 ELSE 0) ELSE a \div Pow2(n)

\* ~a
Not32(a) == (-1) - a

\* NaN, the number that a sum with undefined gives.  The model writes it as
\* an integer that no bit count and no result code takes.
NaN == -1000000

\* a + b and a < b of numbers that may be NaN.
Add(a, b) == IF a = NaN \/ b = NaN THEN NaN ELSE a + b

Lt(a, b) == a # NaN /\ b # NaN /\ a < b

\* ------------------------------------------------------------------------
\* Optional values.
\* ------------------------------------------------------------------------
null == << >>

Some(x) == << x >>

\* ------------------------------------------------------------------------
\* decoder.js: result codes and primitive decoders.  A primitive decoder
\* returns [res |-> bits consumed or a negative code, out |-> output vector].
\* ------------------------------------------------------------------------
RESULT_OK == 0

RESULT_ERROR == -1

RESULT_CHANNEL_NOT_FOUND == -3

check_len(buf, bit_index, bitn, on_boundary) ==
    /\ bit_index # NaN
    /\ Len(buf) * 8 >= bit_index + bitn
    /\ (on_boundary = 0 \/ bit_index % 8 = 0)

\* buf[i] of a JavaScript array, i counted from 0.
ByteAt(buf, i) == buf[i + 1]

RECURSIVE varuint32_loop(_, _, _, _, _)
varuint32_loop(buf, bit_index, val, bit, bit_count) ==
    IF check_len(buf, bit_index, 8, 1)
    THEN LET step(b, v) ==
                 IF b < 128
                 THEN [val |-> v, bit_count |-> bit_count + 8]
                 ELSE varuint32_loop(buf, bit_index + 8, v, bit + 7, bit_count + 8)
         IN  step(ByteAt(buf, bit_index \div 8),
                  Or32(val, Shl32(ByteAt(buf, bit_index \div 8) % 128, bit)))
    ELSE [val |-> val, bit_count |-> bit_count]

varuint32_decoder(buf, bit_index, out) ==
    LET push(r) == [res |-> r.bit_count, out |-> Append(out, r.val)]
    IN  push(varuint32_loop(buf, bit_index, 0, 0, 0))

uint8_decoder(buf, bit_index, out) ==
    IF check_len(buf, bit_index, 8, 1)
    THEN [res |-> 8, out |-> Append(out, ByteAt(buf, bit_index \div 8) % 256)]
    ELSE [res |-> -1, out |-> out]

\* The bits start_bit .. end_bit of buf, the first bit of a byte being its
\* most significant one.
RECURSIVE capture_whole_bytes(_, _, _, _, _)
capture_whole_bytes(buf, i, byte_end, nbits, word) ==
    IF i < byte_end
    THEN capture_whole_bytes(buf, i + 1, byte_end, nbits - 8,
             Or32(word, Shl32(ByteAt(buf, i), nbits - 8)))
    ELSE [nbits |-> nbits, word |-> word]

capture_bits(buf, start_bit, end_bit) ==
    LET byte_start == start_bit \div 8
        bit_start == start_bit % 8
        byte_end == end_bit \div 8
        bit_end == end_bit % 8
        last_byte(m) ==
            Or32(m.word,
                 Shl32((ByteAt(buf, byte_end) % 256) \div Pow2(7 - bit_end),
                       m.nbits - (bit_end + 1)))
        first(bits, nbits) ==
            last_byte(capture_whole_bytes(buf, byte_start + 1, byte_end, nbits,
                                     Shl32(bits, nbits)))
    IN  IF byte_start = byte_end
        THEN ((ByteAt(buf, byte_start) * Pow2(bit_start)) % 256)
                 \div Pow2(bit_start + (7 - bit_end))
        ELSE first(((ByteAt(buf, byte_start) * Pow2(bit_start)) % 256)
                       \div Pow2(bit_start),
                   (end_bit - start_bit + 1) - (8 - bit_start))

\* value / (1 << f_bits): the number scaled / 2^f_bits.
Fraction(scaled, f_bits) == [scaled |-> scaled, f_bits |-> f_bits]

\* The decoder returns -1 when the buffer is too short.
bitfield_decoder(buf, bit_index, out, args) ==
    LET bitn == args.i_bits + args.f_bits
        signed(value) ==
            IF args.sign = 1
            THEN Sar32(Shl32(value, 32 - bitn), (32 - bitn) % 32)
            ELSE value
    IN  IF check_len(buf, bit_index, bitn, 0)
        THEN [res |-> bitn,
              out |-> Append(out,
                         Fraction(signed(capture_bits(buf, bit_index,
                                                      bit_index + bitn - 1)),
                                  args.f_bits))]
        ELSE [res |-> -1, out |-> out]

varint32_decoder(buf, bit_index, out) ==
    LET zigzag(val) ==
            IF val % 2 = 1
            THEN Or32(Sar32(Not32(val), 1), MinInt32)
            ELSE UShr32(val, 1)
        decoded(r) ==
            IF r.res > 0
            THEN [res |-> r.res,
                  out |-> [r.out EXCEPT ![Len(r.out)] = zigzag(@)]]
            ELSE r
    IN  decoded(varuint32_decoder(buf, bit_index, out))

name_decoder(buf, bit_index, out) == [res |-> 8 * 8, out |-> out]

uint16_decoder(buf, bit_index, out) ==
    IF check_len(buf, bit_index, 16, 1)
    THEN [res |-> 16,
          out |-> Append(out, (ByteAt(buf, bit_index \div 8)
                                + 256 * ByteAt(buf, bit_index \div 8 + 1)) % 65536)]
    ELSE [res |-> -1, out |-> out]

uint32_decoder(buf, bit_index, out) ==
    LET word(index) ==
            Or32(Or32(ByteAt(buf, index), Shl32(ByteAt(buf, index + 1), 8)),
                 Or32(Shl32(ByteAt(buf, index + 2), 16),
                      Shl32(ByteAt(buf, index + 3), 24)))
    IN  IF check_len(buf, bit_index, 32, 1)
        THEN [res |-> 32, out |-> Append(out, word(bit_index \div 8))]
        ELSE [res |-> -1, out |-> out]

\* buf.slice(index, index + length) for length >= 0 inside the buffer.
Slice(buf, index, length) == SubSeq(buf, index + 1, index + length)

fixed_bytearray_decoder(buf, bit_index, out, length) ==
    LET nbits == length * 8
    IN  IF check_len(buf, bit_index, nbits, 1)
        THEN [res |-> nbits,
              out |-> Append(out, IF length >= 0
                                  THEN Slice(buf, bit_index \div 8, length)
                                  ELSE << >>)]
        ELSE [res |-> -1, out |-> out]

dynamic_bytearray_decoder(buf, bit_index, out) ==
    LET bytes_of(r1, r2) ==
            IF r2.res < 0
            THEN [res |-> -1, out |-> r2.out]
            ELSE [res |-> r1.res + r2.res, out |-> r2.out]
        length_of(r1) ==
            IF r1.res > 0
            THEN bytes_of(r1, fixed_bytearray_decoder(buf, bit_index + r1.res, r1.out,
                                                      r1.out[Len(r1.out)]))
            ELSE r1
    IN  length_of(varuint32_decoder(buf, bit_index, out))

\* ------------------------------------------------------------------------
\* decoder.js: schemas.  A schema is a sequence of entries; an entry is a
\* primitive (fn, args) or a nested schema (sub).
\* ------------------------------------------------------------------------
Prim(fn, length) == [fn |-> fn, length |-> length, sub |-> << >>]

Nested(schema) == [fn |-> "", length |-> 0, sub |-> schema]

antelope_message_header_decoder == << Prim("uint8_decoder", 0) >>

antelope_message_tapos_decoder ==
    << Nested(antelope_message_header_decoder),
       Prim("uint8_decoder", 0),
       Prim("fixed_bytearray_decoder", 10) >>

antelope_message_action_decoder ==
    << Nested(antelope_message_header_decoder),
       Prim("fixed_bytearray_decoder", 16),
       Prim("fixed_bytearray_decoder", 16) >>

antelope_message_serialized_action_decoder ==
    << Nested(antelope_message_header_decoder),
       Prim("dynamic_bytearray_decoder", 0) >>

antelope_message_signature_decoder ==
    << Nested(antelope_message_header_decoder),
       Prim("fixed_bytearray_decoder", 65) >>

\* field_decoder.fn(buf, bit_index, out, field_decoder.args)
RunPrimitive(entry, buf, bit_index, out) ==
    CASE entry.fn = "uint8_decoder" -> uint8_decoder(buf, bit_index, out)
      [] entry.fn = "uint16_decoder" -> uint16_decoder(buf, bit_index, out)
      [] entry.fn = "uint32_decoder" -> uint32_decoder(buf, bit_index, out)
      [] entry.fn = "varint32_decoder" -> varint32_decoder(buf, bit_index, out)
      [] entry.fn = "name_decoder" -> name_decoder(buf, bit_index, out)
      [] entry.fn = "bitfield_decoder" -> bitfield_decoder(buf, bit_index, out, entry)
      [] entry.fn = "varuint32_decoder" -> varuint32_decoder(buf, bit_index, out)
      [] entry.fn = "fixed_bytearray_decoder" ->
            fixed_bytearray_decoder(buf, bit_index, out, entry.length)
      [] entry.fn = "dynamic_bytearray_decoder" ->
            dynamic_bytearray_decoder(buf, bit_index, out)

RECURSIVE decoder_run_from(_, _, _, _, _, _)
decoder_run_from(buf, bit_index, out, decoder, i, decoded_bits) ==
    IF i > Len(decoder)
    THEN [res |-> decoded_bits, out |-> out]
    ELSE LET field(field_decoder) ==
                 IF field_decoder.sub # << >>
                 THEN decoder_run_from(buf, Add(bit_index, decoded_bits), out,
                                       field_decoder.sub, 1, 0)
                 ELSE IF field_decoder.fn # ""
                      THEN RunPrimitive(field_decoder, buf,
                                        Add(bit_index, decoded_bits), out)
                      ELSE [res |-> 0, out |-> out]
             rest(r) ==
                 IF Lt(r.res, 0)
                 THEN [res |-> r.res, out |-> r.out]
                 ELSE decoder_run_from(buf, bit_index, r.out, decoder, i + 1,
                                       Add(decoded_bits, r.res))
         IN  rest(field(decoder[i]))

decoder_run(buf, bit_index, out, decoder) ==
    decoder_run_from(buf, bit_index, out, decoder, 1, 0)

\* ------------------------------------------------------------------------
\* decoder.js: the channel engine.  The engine reads a channel byte, runs
\* the channel's schema and hands the output vector to the channel's
\* processor; decoder_frames lists, in order, the processor calls the engine
\* makes for a payload (as long as no processor throws) and the result code
\* it ends with.
\* ------------------------------------------------------------------------
RECURSIVE decoder_loop(_, _, _, _)
\* The end of a call of the engine: reads lists the bit indices at which a
\* channel byte was read, ends the bit indices reached after each schema.
Stop(frames, result) ==
    [frames |-> frames, result |-> result, reads |-> << >>, ends |-> << >>]

\* An engine that goes on from the bit a schema ended at.
no_realign(bit_index) == bit_index

\* decoder, lines 563-567: the jump to the next byte boundary.  NaN & 0x7
\* is 0, so NaN stays.
realign(bit_index) ==
    IF bit_index # NaN /\ bit_index % 8 # 0
    THEN ((bit_index + 8) \div 8) * 8
    ELSE bit_index

\* An engine that steps over a byte that is no channel and goes on.
decoder_skips_unknown(bytes, map, bit_index, frames) ==
    IF ~Lt(bit_index, Len(bytes) * 8)
    THEN Stop(frames, RESULT_OK)
    ELSE LET read(r) == [r EXCEPT !.reads = << bit_index >> \o @]
             channel(chan, r) ==
                 IF Lt(r.res, 0)
                 THEN Stop(frames, r.res)
                 ELSE decoder_loop(bytes, map, realign(Add(bit_index + 8, r.res)),
                          Append(frames, [processor |-> map[chan].processor,
                                          out |-> r.out]))
             run(chan) ==
                 IF chan \in DOMAIN map
                 THEN channel(chan, decoder_run(bytes, bit_index + 8, << >>,
                                               map[chan].decoder))
                 ELSE decoder_loop(bytes, map, bit_index + 8, frames)
         IN  read(run(ByteAt(bytes, bit_index \div 8)))

\* An engine that calls the processor of a frame before the processors of
\* the frames that came before it.
invoke_first(frames, processor, out) ==
    << [processor |-> processor, out |-> out] >> \o frames

\* decoder, lines 551-553: the processor of the channel is called with the
\* output vector of the frame.
invoke(frames, processor, out) ==
    Append(frames, [processor |-> processor, out |-> out])

decoder_loop(bytes, map, bit_index, frames) ==
    IF ~Lt(bit_index, Len(bytes) * 8)
    THEN Stop(frames, RESULT_OK)
    ELSE LET read(r) == [r EXCEPT !.reads = << bit_index >> \o @]
             ended(r, end) == [r EXCEPT !.ends = << end >> \o @]
             channel(chan, r) ==
                 IF Lt(r.res, 0)
                 THEN Stop(frames, r.res)
                 ELSE ended(decoder_loop(bytes, map,
                                realign(Add(bit_index + 8, r.res)),
                                IF map[chan].processor # ""
                                THEN invoke(frames, map[chan].processor, r.out)
                                ELSE frames),
                            Add(bit_index + 8, r.res))
             run(chan) ==
                 IF chan \in DOMAIN map
                 THEN channel(chan, decoder_run(bytes, bit_index + 8, << >>,
                                               map[chan].decoder))
                 ELSE Stop(frames, RESULT_CHANNEL_NOT_FOUND)
         IN  read(run(ByteAt(bytes, bit_index \div 8)))

\* An engine that ends in success whatever its passes ended in.
decoder_always_ok(bytes, map) ==
    [decoder_loop(bytes, map, 0, << >>) EXCEPT !.result = RESULT_OK]

decoder_frames(bytes, map) ==
    decoder_loop(bytes, map, 0, << >>)

\* ------------------------------------------------------------------------
\* encoder.js: the encoder that builds the uplink payloads.
\* ------------------------------------------------------------------------
RECURSIVE varuint32_encoder(_)
varuint32_encoder(data) ==
    IF UShr32(data, 7) # 0
    THEN << 128 + (data % 128) >> \o varuint32_encoder(UShr32(data, 7))
    ELSE << data >>

\* (data << 1) ^ (data >> 31): data >> 31 is 0 or -1, and x ^ -1 is ~x.
varint32_encoder(data) ==
    varuint32_encoder(IF Sar32(data, 31) = 0
                      THEN Shl32(data, 1)
                      ELSE Not32(Shl32(data, 1)))

uint8_encoder(data) == << data % 256 >>

uint16_encoder(data) == << Sar32(data, 0) % 256, Sar32(data, 8) % 256 >>

uint32_encoder(data) ==
    << Sar32(data, 0) % 256, Sar32(data, 8) % 256,
       Sar32(data, 16) % 256, Sar32(data, 24) % 256 >>

\* The bytes pushed; the empty result stands for the -1 of a short array.
fixed_bytearray_encoder(data, length) ==
    IF Len(data) >= length THEN SubSeq(data, 1, length) ELSE << >>

dynamic_bytearray_encoder(data) ==
    varuint32_encoder(Len(data)) \o fixed_bytearray_encoder(data, Len(data))

antelope_message_tapos_encoder(values) ==
    uint8_encoder(values[1]) \o uint8_encoder(values[2])
        \o fixed_bytearray_encoder(values[3], 10)

antelope_message_action_encoder(values) ==
    uint8_encoder(values[1]) \o fixed_bytearray_encoder(values[2], 16)
        \o fixed_bytearray_encoder(values[3], 16)

antelope_message_serialized_action_encoder(values) ==
    uint8_encoder(values[1]) \o dynamic_bytearray_encoder(values[2])

antelope_message_signature_encoder(values) ==
    uint8_encoder(values[1]) \o fixed_bytearray_encoder(values[2], 65)

\* encoder_map of the reassembler's test: channel -> encoder.
encoder_run(chan, values) ==
    CASE chan = 0 -> antelope_message_tapos_encoder(values)
      [] chan = 1 -> antelope_message_action_encoder(values)
      [] chan = 2 -> antelope_message_serialized_action_encoder(values)
      [] chan = 3 -> antelope_message_signature_encoder(values)

\* channel_list is a sequence of [chan, values]: the channel and what its
\* provider returns.
RECURSIVE encoder(_)
encoder(channel_list) ==
    IF channel_list = << >> THEN << >>
    ELSE LET c == Head(channel_list)
         IN  (IF c.chan \in 0 .. 3
              THEN << c.chan >> \o encoder_run(c.chan, c.values)
              ELSE << >>) \o encoder(Tail(channel_list))

\* emplace_bits: the bits start_bit .. end_bit of the payload are set from
\* the low bits of bits.  The first byte is OR-ed into buf when buf already
\* has it and pushed otherwise; every further byte is pushed.
emplace_bits(buf, start_bit, end_bit, bits) ==
    LET RECURSIVE emplace_middle(_, _, _, _)
        emplace_middle(b, i, last_byte, nbits) ==
            IF i < last_byte
            THEN emplace_middle(Append(b, Sar32(bits, nbits - 8) % 256),
                                i + 1, last_byte, nbits - 8)
            ELSE b
        byte_start == start_bit \div 8
        bit_start == start_bit % 8
        byte_end == end_bit \div 8
        bit_end == end_bit % 8
        place(byte) ==
            IF byte_start < Len(buf)
            THEN [buf EXCEPT ![byte_start + 1] = BitOrNat(@, byte)]
            ELSE Append(buf, byte)
        nbits == (end_bit - start_bit + 1) - (8 - bit_start)
    IN  IF byte_start = byte_end
        THEN place(Shl32(bits, 7 - bit_end) % 256)
        ELSE Append(emplace_middle(place(Sar32(bits, nbits) % 256),
                                   byte_start + 1, byte_end, nbits),
                    Shl32(bits, 7 - bit_end) % 256)

\* data is the number data.scaled / 2^f_bits, with the f_bits of the field,
\* so that data * (1 << f_bits) is data.scaled.  The fields of the model have
\* less than 31 bits: the product is a 32 bit integer as it stands.
bitfield_encoder(buf, bit_index, data, args) ==
    LET bitn == args.i_bits + args.f_bits
        unit == Shl32(1, args.f_bits)
        clamped ==
            IF data.scaled >= Shl32(1, args.i_bits - args.sign) * unit
            THEN (Shl32(1, args.i_bits) - 1) * unit
            ELSE IF args.sign = 1 /\ data.scaled < (-Shl32(1, args.i_bits - 1)) * unit
                 THEN (-Shl32(1, args.i_bits - 1)) * unit
                 ELSE data.scaled
        masked == UShr32(Shl32(clamped, 32 - bitn), 32 - bitn)
    IN  [res |-> bitn,
         buf |-> emplace_bits(buf, bit_index, bit_index + bitn - 1, masked)]

\* ------------------------------------------------------------------------
\* decoder-antelope.js: the transaction reassembler.
\* ------------------------------------------------------------------------
HexDigits == << "0", "1", "2", "3", "4", "5", "6", "7",
                "8", "9", "a", "b", "c", "d", "e", "f" >>

\* Buffer.toString('hex'): two hexadecimal digits per byte.
RECURSIVE toHex(_)
toHex(buf) ==
    IF buf = << >> THEN << >>
    ELSE << HexDigits[(Head(buf) \div 16) + 1], HexDigits[(Head(buf) % 16) + 1] >>
             \o toHex(Tail(buf))

\* 'SIG_K1_' followed by the base58 text of the key and its checksum; the
\* text is kept as the bytes it renders, the rendering being one to one.
check_encode_k1(key_buf) == << "SIG_K1_", key_buf >>

new_trx ==
    [chain |-> 0, signature |-> null, tapos |-> null, action |-> null, data |-> null]

\* The table after get_trx(id); the record returned is the entry at id.
get_trx(map, id) ==
    IF id \in DOMAIN map THEN map
    ELSE [i \in DOMAIN map \cup {id} |-> IF i = id THEN new_trx ELSE map[i]]

\* A check_dispatch that emits the transaction and keeps its record, which
\* the property of the record after an emission must tell from the source's.
check_dispatch_keeps(trx_id, st) ==
    LET trx == st.trx_map[trx_id]
    IN  IF trx.signature # null /\ trx.tapos # null /\ trx.action # null /\ trx.data # null
        THEN IF trx.chain \in DOMAIN st.dispatcher_queue
             THEN [st EXCEPT !.dispatcher_queue[trx.chain] =
                                 Append(@, [signatures |-> << trx.signature[1] >>,
                                            compression |-> FALSE,
                                            packed_context_free_data |-> "",
                                            packed_trx |-> ""])]
             ELSE [st EXCEPT !.thrown = TRUE]
        ELSE st

\* st is [trx_map, dispatcher_queue, thrown]; thrown is set when the call
\* ends in an exception.
check_dispatch(trx_id, st) ==
    LET trx == st.trx_map[trx_id]
    IN  IF trx.signature # null /\ trx.tapos # null /\ trx.action # null /\ trx.data # null
        THEN LET transaction ==
                     [signatures |-> << trx.signature[1] >>,
                      compression |-> FALSE,
                      packed_context_free_data |-> "",
                      packed_trx |-> toHex(trx.tapos[1] \o trx.action[1] \o trx.data[1])]
             IN  IF trx.chain \in DOMAIN st.dispatcher_queue
                 THEN [st EXCEPT
                          !.dispatcher_queue[trx.chain] = Append(@, transaction),
                          !.trx_map = [i \in DOMAIN st.trx_map \ {trx_id} |-> st.trx_map[i]]]
                 ELSE [st EXCEPT !.thrown = TRUE]
        ELSE st

\* Variants of the processors that the properties below must tell from the
\* processors of the source: an ACTION that overwrites the field, a TAPOS that
\* starts the record afresh, a TAPOS that sets the chain every time.
action_processor_overwrite(out, st) ==
    LET trx_id == out[1] % 8
        map == get_trx(st.trx_map, trx_id)
    IN  check_dispatch(trx_id,
            [st EXCEPT !.trx_map =
                [map EXCEPT ![trx_id].action =
                                Some(<< 1 >> \o out[2] \o << 1 >> \o out[3])]])

tapos_processor_restart(out, st) ==
    LET trx_id == out[1] % 8
        map == get_trx(st.trx_map, trx_id)
    IN  check_dispatch(trx_id,
            [st EXCEPT !.trx_map =
                [i \in DOMAIN map |->
                    IF i # trx_id THEN map[i]
                    ELSE IF map[i].tapos = null
                         THEN [map[i] EXCEPT !.chain = out[2] % 8,
                                             !.tapos = Some(out[3])]
                         ELSE [new_trx EXCEPT !.chain = out[2] % 8,
                                              !.tapos = Some(out[3])]]])

tapos_processor_rechain(out, st) ==
    LET trx_id == out[1] % 8
        map == get_trx(st.trx_map, trx_id)
        map1 == IF map[trx_id].tapos = null
                THEN [map EXCEPT ![trx_id].tapos = Some(out[3])]
                ELSE map
    IN  check_dispatch(trx_id,
            [st EXCEPT !.trx_map = [map1 EXCEPT ![trx_id].chain = out[2] % 8]])

\* A TAPOS processor that takes the whole header byte for the id.
tapos_processor_unmasked(out, st) ==
    LET trx_id == out[1]
        map == get_trx(st.trx_map, trx_id)
        map1 == IF map[trx_id].tapos = null
                THEN [map EXCEPT ![trx_id].chain = out[2] % 8,
                                 ![trx_id].tapos = Some(out[3])]
                ELSE map
    IN  check_dispatch(trx_id, [st EXCEPT !.trx_map = map1])

antelope_message_tapos_processor(out, st) ==
    LET header == out[1]
        trx_id == header % 8
        chain_id == out[2] % 8
        map == get_trx(st.trx_map, trx_id)
        map1 == IF map[trx_id].tapos = null
                THEN [map EXCEPT ![trx_id].chain = chain_id,
                                 ![trx_id].tapos = Some(out[3])]
                ELSE map
    IN  check_dispatch(trx_id, [st EXCEPT !.trx_map = map1])

antelope_message_action_processor(out, st) ==
    LET header == out[1]
        trx_id == header % 8
        map == get_trx(st.trx_map, trx_id)
        map1 == IF map[trx_id].action = null
                THEN [map EXCEPT ![trx_id].action =
                                     Some(<< 1 >> \o out[2] \o << 1 >> \o out[3])]
                ELSE map
    IN  check_dispatch(trx_id, [st EXCEPT !.trx_map = map1])

\* Buffer.from(out[2]) throws when the output vector has no third element.
antelope_message_serialized_action_processor(out, st) ==
    LET header == out[1]
        trx_id == header % 8
        map == get_trx(st.trx_map, trx_id)
    IN  IF map[trx_id].data = null
        THEN IF Len(out) < 3
             THEN [st EXCEPT !.trx_map = map, !.thrown = TRUE]
             ELSE check_dispatch(trx_id,
                      [st EXCEPT !.trx_map = [map EXCEPT ![trx_id].data = Some(out[3])]])
        ELSE check_dispatch(trx_id, [st EXCEPT !.trx_map = map])

antelope_message_signature_processor(out, st) ==
    LET header == out[1]
        trx_id == header % 8
        map == get_trx(st.trx_map, trx_id)
        map1 == IF map[trx_id].signature = null
                THEN [map EXCEPT ![trx_id].signature = Some(check_encode_k1(out[2]))]
                ELSE map
    IN  check_dispatch(trx_id, [st EXCEPT !.trx_map = map1])

channel_map ==
    (0 :> [decoder |-> antelope_message_tapos_decoder,
           processor |-> "antelope_message_tapos_processor"])
    @@ (1 :> [decoder |-> antelope_message_action_decoder,
              processor |-> "antelope_message_action_processor"])
    @@ (2 :> [decoder |-> antelope_message_serialized_action_decoder,
              processor |-> "antelope_message_serialized_action_processor"])
    @@ (3 :> [decoder |-> antelope_message_signature_decoder,
              processor |-> "antelope_message_signature_processor"])

\* decoder.processor(decoder_out, processor_data)
RunProcessor(frame, st) ==
    CASE frame.processor = "antelope_message_tapos_processor" ->
            antelope_message_tapos_processor(frame.out, st)
      [] frame.processor = "antelope_message_action_processor" ->
            antelope_message_action_processor(frame.out, st)
      [] frame.processor = "antelope_message_serialized_action_processor" ->
            antelope_message_serialized_action_processor(frame.out, st)
      [] frame.processor = "antelope_message_signature_processor" ->
            antelope_message_signature_processor(frame.out, st)

\* The reassembler states a decoder call goes through: the state before the
\* first frame and the state after each processor call, up to the first one
\* that throws.
RECURSIVE decoder_states(_, _, _)
decoder_states(frames, i, states) ==
    LET st == states[Len(states)]
    IN  IF i > Len(frames) \/ st.thrown
        THEN states
        ELSE decoder_states(frames, i + 1, Append(states, RunProcessor(frames[i], st)))

\* ------------------------------------------------------------------------
\* Inputs: the fragments a device sends and the payloads built from them.
\* ------------------------------------------------------------------------
Kinds == 0 .. 3

Fill(n, b) == [i \in 1 .. n |-> b]

\* What the provider of channel kind returns for a fragment with the given
\* header byte, chain byte and content byte.
Provider(kind, v) ==
    CASE kind = 0 -> << v.header, v.chain, Fill(10, v.content) >>
      [] kind = 1 -> << v.header, Fill(16, v.content), Fill(16, v.content + 1) >>
      [] kind = 2 -> << v.header, Fill(v.content % 16, v.content) >>
      [] kind = 3 -> << v.header, << 1 >> \o Fill(64, v.content) >>

Fragment(kind, v) == [chan |-> kind, values |-> Provider(kind, v)]

\* The payload with one frame per kind of kinds, all of variant v.
PayloadOf(kinds, v) == encoder([i \in 1 .. Len(kinds) |-> Fragment(kinds[i], v)])

KindSeqs(n) == UNION {[1 .. m -> Kinds] : m \in 1 .. n}

DistinctKindSeqs == {q \in KindSeqs(4) : \A i, j \in 1 .. Len(q) : i # j => q[i] # q[j]}

\* Spec: two variants of a transaction with id 5 (header 13 is id 5 with a
\* flag bit set; chain byte 9 is chain 1, chain byte 2 is chain 2), an empty
\* payload and a payload that starts with a byte that is no channel.
Variants ==
    { [header |-> 5, chain |-> 9, content |-> 17],
      [header |-> 13, chain |-> 2, content |-> 34] }

Payloads ==
    {PayloadOf(q, v) : q \in KindSeqs(MaxFrags), v \in Variants}
        \cup { << >>, << 127 >> }

\* SpecOrder: the four fragments of one transaction, for each chain byte.
OrderVariants == {[header |-> 5, chain |-> c, content |-> 17] : c \in 0 .. 7}

OrderPayloads == {PayloadOf(q, v) : q \in DistinctKindSeqs, v \in OrderVariants}

\* SpecDevices: the fragments of one transaction, sent by two devices.
DeviceKeys == {1, 2}

DeviceVariant == [header |-> 5, chain |-> 1, content |-> 17]

DevicePayloads == {PayloadOf(q, DeviceVariant) : q \in KindSeqs(MaxFrags)}

\* SpecMalformed: payloads with a byte that is no channel at the place of a
\* channel byte, before and after frames of a transaction, and payloads cut
\* short at every length.
UnknownChannels == {4, 127}

BrokenFrames ==
    [pre : KindSeqs(1) \cup {<< >>}, byte : UnknownChannels, post : KindSeqs(1),
     variant : Variants]

BrokenPayload(x) ==
    PayloadOf(x.pre, x.variant) \o << x.byte >> \o PayloadOf(x.post, x.variant)

Prefixes(p) == {SubSeq(p, 1, n) : n \in 0 .. Len(p)}

MalformedPayloads ==
    {BrokenPayload(x) : x \in BrokenFrames}
        \cup UNION {Prefixes(PayloadOf(<< kind >>, v)) : kind \in Kinds, v \in Variants}

\* SpecPurge: the fragments of two transactions with the ids 5 and 6.
PurgeVariants ==
    { [header |-> 5, chain |-> 1, content |-> 17],
      [header |-> 6, chain |-> 1, content |-> 34] }

PurgePayloads == {PayloadOf(<< k >>, v) : k \in Kinds, v \in PurgeVariants}

\* SpecIds: TAPOS fragments with the header bytes 0 .. 15 and 253, and ACTION
\* fragments with the header bytes 5 and 253.  The content tells a header
\* with a bit above bit 2 set from one without.
IdHeaders == 0 .. 15 \cup {253}

IdVariant(h) == [header |-> h, chain |-> 9, content |-> IF h < 8 THEN 17 ELSE 34]

IdPayloads ==
    {PayloadOf(<< 0 >>, IdVariant(h)) : h \in IdHeaders}
        \cup {PayloadOf(<< 1 >>, IdVariant(h)) : h \in {5, 253}}

\* The engine's reading of every payload of the model.
DecodedPayload ==
    [p \in Payloads \cup OrderPayloads \cup DevicePayloads \cup MalformedPayloads
            \cup PurgePayloads \cup IdPayloads |->
        decoder_frames(p, channel_map)]

\* ------------------------------------------------------------------------
\* State.
\* ------------------------------------------------------------------------
VARIABLES
    trx_map,              \* decoder-antelope.js: trx id -> record being assembled
    dispatcher_queue,     \* decoder-antelope.js: chain -> transactions emitted
    device_states,        \* antelope-server.js: the device keys seen
    origin,               \* history: for each field of a record, the device that set it
    last,                 \* history: what the last decoder call did
    epoch,                \* history: the time in seconds, and the time of the records
    plan,                 \* SpecOrder: the payloads still to be sent
    tapos_manager_state,  \* antelope-server.js: chain key -> api_pool, api_last, dispatch_queue
    in_flight,            \* antelope-server.js: the POSTs whose callbacks are pending
    responses,            \* antelope-server.js: the res objects of the ingress requests
    crashed,              \* antelope-server.js: a callback threw, the process is gone
    item_count,           \* history: the number of items pushed to the dispatch queues
    posted,               \* history: item -> the number of POSTs made for it
    sweep,                \* history: what the last dispatch sweep did
    removal,              \* history: what the last POST completion removed
    requests,             \* antelope-server.js: the get_info requests without a response yet
    timers,               \* antelope-server.js: chain key -> the number of pending run timers
    tick,                 \* history: what the last run of the TAPOS manager did
    poll,                 \* history: what the last get_info response was
    codec,                \* SpecCodec: the last run of the encoder and the decoder
    loop                  \* SpecLoop: the event loop, its ready requests and callbacks in progress

reassembler_vars == << trx_map, dispatcher_queue, device_states, origin, last, epoch >>

manager_vars == << requests, timers, tick, poll >>

server_vars ==
    << tapos_manager_state, in_flight, responses, crashed, item_count, posted, sweep,
       removal, manager_vars >>

vars == << reassembler_vars, plan, server_vars, codec, loop >>

Fields == {"tapos", "action", "data", "signature"}

FieldOf(processor) ==
    CASE processor = "antelope_message_tapos_processor" -> "tapos"
      [] processor = "antelope_message_action_processor" -> "action"
      [] processor = "antelope_message_serialized_action_processor" -> "data"
      [] processor = "antelope_message_signature_processor" -> "signature"

EmptyMap == [i \in {} |-> new_trx]

EmptyQueues == (0 :> << >>) @@ (1 :> << >>)

FrameId(frame) == frame.out[1] % 8

\* The value a frame gives to its field of a record that does not have it.
FrameValue(frame) ==
    RunProcessor(frame, [trx_map |-> EmptyMap, dispatcher_queue |-> EmptyQueues,
                         thrown |-> FALSE]).trx_map[FrameId(frame)][FieldOf(frame.processor)]

Emitted(queues) == Len(queues[0]) + Len(queues[1])

\* decoder-antelope.js platform and decoder.js decoder: the object the
\* engine creates for a call, hands to pre_process and to every processor,
\* and returns through post_process.  No processor writes to it.
processor_data == {}

pre_process(obj) == obj

post_process(obj) == obj

NoCall ==
    [outcome |-> "none", ignored |-> FALSE, chain_diff |-> FALSE, twice |-> FALSE,
     emitted |-> 0, result |-> RESULT_OK, returned |-> null]

\* The devices that set the fields of the records of table after, given
\* that key sent the frame that turned table before into after.
OriginAfter(orig, before, after, key) ==
    [id \in DOMAIN after |->
        [f \in Fields |->
            IF after[id][f] = null THEN null
            ELSE IF id \in DOMAIN before /\ before[id][f] # null THEN orig[id][f]
            ELSE Some(key)]]

RECURSIVE OriginOf(_, _, _, _)
OriginOf(orig, states, i, key) ==
    IF i >= Len(states) THEN orig
    ELSE OriginOf(OriginAfter(orig, states[i].trx_map, states[i + 1].trx_map, key),
                  states, i + 1, key)

CallSummary(frames, states, result) ==
    LET applied == Len(states) - 1
        final == states[Len(states)]
    IN  [outcome |-> IF final.thrown THEN "thrown"
                     ELSE IF result = RESULT_OK THEN "ok" ELSE "error",
         ignored |-> \E i \in 1 .. applied :
                        LET b == states[i].trx_map
                            id == FrameId(frames[i])
                            f == FieldOf(frames[i].processor)
                        IN  /\ id \in DOMAIN b
                            /\ b[id][f] # null
                            /\ b[id][f] # FrameValue(frames[i]),
         chain_diff |-> \E i \in 1 .. applied :
                        LET b == states[i].trx_map
                            id == FrameId(frames[i])
                        IN  /\ FieldOf(frames[i].processor) = "tapos"
                            /\ id \in DOMAIN b
                            /\ b[id].tapos # null
                            /\ b[id].chain # frames[i].out[2] % 8,
         twice |-> \E i \in 1 .. applied - 1 :
                        /\ frames[i].processor = frames[i + 1].processor
                        /\ frames[i].out = frames[i + 1].out,
         emitted |-> Emitted(final.dispatcher_queue) - Emitted(states[1].dispatcher_queue),
         result |-> result,
         returned |-> IF final.thrown THEN null
                      ELSE Some(post_process(pre_process(processor_data)))]

\* ------------------------------------------------------------------------
\* Operations.
\* ------------------------------------------------------------------------
\* antelope-server.js get_device_state: the state of a device is created on
\* its first uplink.
get_device_state(key) == device_states \cup {key}

\* antelope-server.js manage_device_state, which get_device_state calls for a
\* device it knows: the records that have a last_epoch more than 300 seconds
\* before now_epoch are deleted.  The table given to it is taken to be the
\* table of the processors.
manage_device_state(map, now_epoch) ==
    LET purged(trx) ==
            /\ "last_epoch" \in DOMAIN trx
            /\ trx.last_epoch # 0
            /\ now_epoch - trx.last_epoch > 300
    IN  [i \in {j \in DOMAIN map : ~purged(map[j])} |-> map[i]]

\* The times of the records after a decoder call at time now that started
\* from table before, made the processor calls of frames and left table
\* after: written is the time of the last call with a fragment of the record,
\* merged the age the record had when the call added to it.
EpochAfter(before, after, frames) ==
    LET addressed == {FrameId(frames[i]) : i \in 1 .. Len(frames)}
    IN  [now |-> epoch.now,
         written |-> [id \in DOMAIN after |->
                         IF id \in addressed THEN epoch.now ELSE epoch.written[id]],
         merged |-> [id \in DOMAIN after |->
                        IF id \in addressed /\ id \in DOMAIN before
                        THEN epoch.now - epoch.written[id]
                        ELSE 0]]

\* antelope.decoder(payload, state): the engine decodes the payload and calls
\* the fragment processors, which work on the table the purge left and on
\* dispatcher_queue.
decoder_call(key, table, bytes) ==
    \E d \in {DecodedPayload[bytes]} :
    \E states \in {decoder_states(d.frames, 1,
                       << [trx_map |-> table,
                           dispatcher_queue |-> dispatcher_queue,
                           thrown |-> FALSE] >>)} :
       /\ trx_map' = states[Len(states)].trx_map
       /\ dispatcher_queue' = states[Len(states)].dispatcher_queue
       /\ origin' = OriginOf(origin, states, 1, key)
       /\ last' = CallSummary(d.frames, states, d.result)
       /\ epoch' = EpochAfter(table, states[Len(states)].trx_map,
                              SubSeq(d.frames, 1, Len(states) - 1))

\* One uplink of device key: get_device_state, with the purge for a device
\* that is known, and the decoder call.
Uplink(key, bytes) ==
    /\ Emitted(dispatcher_queue) < MaxQueue
    /\ \E table \in {IF key \in device_states
                      THEN manage_device_state(trx_map, epoch.now)
                      ELSE trx_map} :
          decoder_call(key, table, bytes)
    /\ device_states' = get_device_state(key)

InitReassembler ==
    /\ trx_map = EmptyMap
    /\ dispatcher_queue = EmptyQueues
    /\ device_states = {}
    /\ origin = << >>
    /\ last = NoCall
    /\ epoch = [now |-> 0, written |-> << >>, merged |-> << >>]

\* ------------------------------------------------------------------------
\* antelope-server.js: the dispatch queues.
\* ------------------------------------------------------------------------
CHAIN_KEY_FROM_ID == (0 :> "TELOS_TESTNET") @@ (1 :> "TELOS_MAINNET")

ELPP_PORT_LORAWAN == 8

ChainKeys == {CHAIN_KEY_FROM_ID[c] : c \in DOMAIN CHAIN_KEY_FROM_ID}

\* The hosts of the api_pool of each chain.
PoolHosts ==
    [k \in ChainKeys |->
        IF k = "TELOS_TESTNET"
        THEN << "telostestnet.greymass.com", "telostest.api.eosnation.io" >>
        ELSE << "telos.greymass.com", "telos.api.eosnation.io" >>]

\* The chain_id a get_info response of each chain must carry.
ChainHash ==
    [k \in ChainKeys |->
        IF k = "TELOS_TESTNET"
        THEN "1eaa0824707c8c16bd25145493bf062aecddfeb56c736f6ba6397f3195f33c9f"
        ELSE "4667b205c6838ef70ff7988f6e8257e8be0e1284a2f59699054a018f743b1d11"]

\* An entry of an api_pool.
PoolEntry(host, errors, check_count, use_count) ==
    [host |-> host, errors |-> errors, check_count |-> check_count,
     use_count |-> use_count]

\* The api_pool of chain k as the source declares it.
FreshPool(k) == [i \in 1 .. 2 |-> PoolEntry(PoolHosts[k][i], 0, 0, 0)]

\* The state of chain k with the given api_pool: api_last is null or the
\* host of the pool entry it refers to; a queue item is the transaction it
\* carries (numbered in the order of arrival) and its started flag.
ManagerState(k, pool) ==
    [hash |-> ChainHash[k],
     tapos |-> [acq_time_epoch |-> 0, ref_block_num |-> 0, ref_block_prefix |-> 0],
     api_pool |-> pool,
     api_last |-> null,
     dispatch_queue |-> << >>]

NoTick ==
    [count |-> 0, chain |-> "", api |-> 0, errors |-> 0, quarantined |-> FALSE,
     used |-> FALSE, issued |-> FALSE, next_run |-> "normal"]

NoPoll == [chain |-> "", api |-> 0, outcome |-> "none"]

\* The res objects the server still holds: the res of a request is numbered
\* with the least number not in use; ends counts the calls of res.end (2 stands
\* for two or more), downlink is the chain of the TAPOS request whose downlink
\* POST holds the res.  A res that was ended and that no pending POST refers
\* to is not kept.
NoResponses == [r \in {} |-> [ends |-> 0, downlink |-> null]]

FreshRes(tbl) == CHOOSE r \in 1 .. Cardinality(DOMAIN tbl) + 1 : r \notin DOMAIN tbl

\* res.end(...)
res_end(tbl, r) == [tbl EXCEPT ![r].ends = IF @ < 2 THEN @ + 1 ELSE @]

Held(tbl, posts) ==
    [r \in {q \in DOMAIN tbl : \/ tbl[q].ends = 0
                                \/ tbl[q].downlink # null
                                \/ \E p \in posts : p.res = q} |-> tbl[r]]

InitServer ==
    /\ tapos_manager_state = [k \in ChainKeys |-> ManagerState(k, FreshPool(k))]
    /\ requests = {}
    /\ timers = [k \in ChainKeys |-> 0]
    /\ tick = NoTick
    /\ poll = NoPoll
    /\ in_flight = {}
    /\ responses = NoResponses
    /\ crashed = FALSE
    /\ item_count = 0
    /\ posted = << >>
    /\ sweep = [posted |-> {}, skipped |-> {}]
    /\ removal = [item |-> 0, removed |-> {}]

\* tapos_get: the tapos object of the chain, which the state of a chain has
\* from the start.
tapos_get(state_tbl, chain_id) ==
    IF chain_id \in DOMAIN CHAIN_KEY_FROM_ID
    THEN Some(state_tbl[CHAIN_KEY_FROM_ID[chain_id]].tapos)
    ELSE null

\* A lookup that finds a queue for every chain id.
dispatch_get_any(chain_id) ==
    Some(CHAIN_KEY_FROM_ID[chain_id % 2])

dispatch_get(chain_id) ==
    IF chain_id \in DOMAIN CHAIN_KEY_FROM_ID
    THEN Some(CHAIN_KEY_FROM_ID[chain_id])
    ELSE null

\* A push that puts the transaction in front of the queue of its chain.
push_trx_first(state_tbl, chain_id, item) ==
    LET q == dispatch_get(chain_id)
    IN  IF q # null
        THEN [state_tbl EXCEPT ![q[1]].dispatch_queue =
                 << [item |-> item, started |-> FALSE] >> \o @]
        ELSE state_tbl

\* push_trx: the completed transaction is appended to the queue of its
\* chain; a transaction of an unknown chain is answered with 500 and dropped.
push_trx(state_tbl, chain_id, item) ==
    LET q == dispatch_get(chain_id)
    IN  IF q # null
        THEN [state_tbl EXCEPT ![q[1]].dispatch_queue =
                 Append(@, [item |-> item, started |-> FALSE])]
        ELSE state_tbl

\* Variants of the sweep that the properties below must tell from the sweep
\* of the source: one that leaves the item not started, one that POSTs to
\* the first host of the pool.
LeftNotStarted(trx) == trx

PoolHeadHost(state) == state.api_pool[1].host

\* manage_dispatch_queues, line 291: if (state.api_last)
CanDispatch(state) == state.api_last # null

\* manage_dispatch_queues, line 293: state.api_last.host
DispatchHost(state) == state.api_last[1]

\* manage_dispatch_queues, line 294: trx.started = true
MarkStarted(trx) == [trx EXCEPT !.started = TRUE]

\* The indices t (counted from 0) of the items of a chain that a sweep starts.
ToStart(state) ==
    {t \in 0 .. Len(state.dispatch_queue) - 1 :
        ~state.dispatch_queue[t + 1].started /\ CanDispatch(state)}

\* manage_dispatch_queues: the table after a sweep.
manage_dispatch_queues(state_tbl) ==
    [k \in DOMAIN state_tbl |->
        [state_tbl[k] EXCEPT !.dispatch_queue =
            [t \in 1 .. Len(@) |->
                IF t - 1 \in ToStart(state_tbl[k]) THEN MarkStarted(@[t]) ELSE @[t]]]]

\* dispatch_trx: the POSTs a sweep makes; each keeps the queue and the index
\* its item had at the sweep.
dispatch_trx(state_tbl, res) ==
    UNION {{[chain |-> k, index |-> t, item |-> state_tbl[k].dispatch_queue[t + 1].item,
             host |-> DispatchHost(state_tbl[k]), res |-> res] :
               t \in ToStart(state_tbl[k])} :
           k \in DOMAIN state_tbl}

\* The items of the table that are marked started.
StartedItems(state_tbl) ==
    UNION {{state_tbl[k].dispatch_queue[t].item :
               t \in {u \in 1 .. Len(state_tbl[k].dispatch_queue) :
                         state_tbl[k].dispatch_queue[u].started}} :
           k \in DOMAIN state_tbl}

\* What antelope.decoder hands to decodeHelium: nothing, a record without
\* trx and tapos_req, a TAPOS request, or a completed transaction of a chain.
DecoderResults ==
    {[kind |-> k, chain |-> 0] : k \in {"null", "incomplete"}}
        \cup {[kind |-> k, chain |-> c] : k \in {"trx", "tapos_req"}, c \in 0 .. 2}

Ports == {ELPP_PORT_LORAWAN, 1}

\* A handler whose test of the port is switched off.
PortCheckOff(port) == FALSE

\* decodeHelium, line 397: if (1 && data.port != ELPP_PORT_LORAWAN)
UnsupportedPort(port) ==
    port # ELPP_PORT_LORAWAN

\* decodeHelium and push_trx, the calls of res.writeHead and res.end that the
\* handler makes itself: the status and the first words of the text, or null
\* when the request is left to be answered by the callbacks of a POST.
decodeHelium_answer(port, dresult, url, state_tbl) ==
    IF UnsupportedPort(port)
    THEN Some([status |-> 500, text |-> "Unsupported port"])
    ELSE CASE dresult.kind = "trx" ->
                IF dispatch_get(dresult.chain) # null
                THEN null
                ELSE Some([status |-> 500, text |-> "decoder: unknown chain"])
           [] dresult.kind = "tapos_req" ->
                IF url
                THEN IF tapos_get(state_tbl, dresult.chain) # null
                     THEN null
                     ELSE Some([status |-> 500, text |-> "decoder error: no tapos"])
                ELSE Some([status |-> 500, text |-> "decoder error: no downlink url"])
           [] dresult.kind = "incomplete" ->
                Some([status |-> 200, text |-> "decoder: need more data"])
           [] dresult.kind = "null" ->
                Some([status |-> 500, text |-> "decoder error: no result"])

\* decodeHelium: an uplink of device key on the given port, for which the
\* decoder returns dresult; url tells whether the request names a downlink
\* url.  The handler answers, or POSTs the downlink of a TAPOS request, or
\* queues the transaction, and ends with a dispatch sweep that hands its res
\* to every POST it makes.
decodeHelium(port, key, dresult, url) ==
    /\ ~crashed
    /\ dresult.kind = "trx" => item_count < MaxItems
    /\ Cardinality(DOMAIN responses) <= MaxItems
    /\ IF UnsupportedPort(port)
       THEN UNCHANGED << device_states, server_vars >>
       ELSE LET accepted == dresult.kind = "trx" /\ dispatch_get(dresult.chain) # null
                pushed == IF dresult.kind = "trx"
                          THEN push_trx(tapos_manager_state, dresult.chain, item_count + 1)
                          ELSE tapos_manager_state
                res == FreshRes(responses)
                posts == dispatch_trx(pushed, res)
                count == IF accepted THEN item_count + 1 ELSE item_count
                downlink == /\ dresult.kind = "tapos_req"
                            /\ url
                            /\ tapos_get(tapos_manager_state, dresult.chain) # null
                answered ==
                    decodeHelium_answer(port, dresult, url, tapos_manager_state) # null
            IN  /\ device_states' = get_device_state(key)
                /\ item_count' = count
                /\ tapos_manager_state' = manage_dispatch_queues(pushed)
                /\ in_flight' = in_flight \cup posts
                /\ responses' =
                       Held(responses @@
                                (res :> [ends |-> IF answered THEN 1 ELSE 0,
                                         downlink |-> IF downlink
                                                      THEN Some(dresult.chain)
                                                      ELSE null]),
                            in_flight \cup posts)
                /\ posted' = [i \in 1 .. count |->
                                 (IF i \in DOMAIN posted THEN posted[i] ELSE 0)
                                     + Cardinality({p \in posts : p.item = i})]
                /\ sweep' = [posted |-> {p.item : p \in posts},
                             skipped |-> StartedItems(pushed)]
                /\ UNCHANGED << crashed, removal, manager_vars >>
    /\ UNCHANGED << trx_map, dispatcher_queue, origin, last, epoch, plan, codec, loop >>

\* dispatch_tapos, lines 166-189: the response, or the error, of the downlink
\* POST that holds res r arrives and is handed on with res.end.
dispatch_tapos_end(r) ==
    /\ ~crashed
    /\ r \in DOMAIN responses
    /\ responses[r].downlink # null
    /\ responses' = Held(res_end([responses EXCEPT ![r].downlink = null], r), in_flight)
    /\ UNCHANGED << tapos_manager_state, in_flight, crashed, item_count, posted, sweep,
                    removal, manager_vars, reassembler_vars, plan, codec, loop >>

\* chain_q.splice(chain_q_index, 1)
Splice(chain_q, chain_q_index) ==
    SubSeq(chain_q, 1, chain_q_index) \o SubSeq(chain_q, chain_q_index + 2, Len(chain_q))

\* The response, or the error, of POST p arrives: it is handed on with
\* res.end, and remove_trx is called with the queue and the index of the sweep.  Reading the key of an item that is
\* not there throws, and an exception in a callback ends the process.
remove_trx(p) ==
    LET chain_q == tapos_manager_state[p.chain].dispatch_queue
    IN  /\ ~crashed
        /\ p \in in_flight
        /\ in_flight' = in_flight \ {p}
        /\ responses' = Held(res_end(responses, p.res), in_flight \ {p})
        /\ IF p.index < Len(chain_q)
           THEN /\ tapos_manager_state' =
                       [tapos_manager_state EXCEPT ![p.chain].dispatch_queue =
                           Splice(chain_q, p.index)]
                /\ removal' = [item |-> p.item, removed |-> {chain_q[p.index + 1].item}]
                /\ UNCHANGED crashed
           ELSE /\ crashed' = TRUE
                /\ removal' = [item |-> p.item, removed |-> {}]
                /\ UNCHANGED tapos_manager_state
        /\ UNCHANGED << item_count, posted, sweep, manager_vars, reassembler_vars,
                        plan, codec, loop >>

\* ------------------------------------------------------------------------
\* antelope-server.js: the TAPOS manager.  An api of the code is a reference
\* to a pool entry: here null or the index of the entry in the pool.
\* ------------------------------------------------------------------------
TAPOS_MANAGER_API_ERRORS_MAX == 5

TAPOS_MANAGER_API_CHECK_MAX == 10

\* Math.random() is one of the numbers random / RandomSteps, random in
\* 0 .. RandomSteps - 1.
RandomSteps == 16

\* tapos_manager_next_run: the period, in milliseconds, of the timer of the
\* next run; min is a whole number, so the floor of the sum is min plus the
\* floor of the product.
tapos_manager_next_run(error, random) ==
    LET max == IF error THEN 30 * 1000 ELSE 10 * 60 * 1000
        min == IF error THEN 10 * 1000 ELSE 5 * 60 * 1000
    IN  ((random * (max - min)) \div RandomSteps) + min

\* tapos_manager_select_pool, line 655: let attempts = 10
attempts == 10

\* tapos_manager_select_pool, lines 645-653: the housekeeping of one entry.
housekeeping(api) ==
    IF api.errors >= TAPOS_MANAGER_API_ERRORS_MAX
    THEN IF api.check_count + 1 = TAPOS_MANAGER_API_CHECK_MAX
         THEN [api EXCEPT !.errors = @ - 1, !.check_count = 0]
         ELSE [api EXCEPT !.check_count = @ + 1]
    ELSE api

\* tapos_manager_select_pool, lines 657-660: the do-while loop; draws[n] is
\* the index of the n-th random draw and left is the value of attempts
\* before it.  The value is the index of the last entry drawn.
RECURSIVE draw_loop(_, _, _, _)
draw_loop(pool, draws, n, left) ==
    IF left - 1 # 0 /\ pool[draws[n]].errors >= TAPOS_MANAGER_API_ERRORS_MAX
    THEN draw_loop(pool, draws, n + 1, left - 1)
    ELSE draws[n]

\* tapos_manager_select_pool: the state of the chain after the selection and
\* the api returned.
tapos_manager_select_pool(state, draws) ==
    LET selected(pool, index) ==
            [state |-> [state EXCEPT !.api_pool =
                           [pool EXCEPT ![index].use_count = @ + 1]],
             api |-> Some(index)]
        drawn(pool) == selected(pool, draw_loop(pool, draws, 1, attempts))
    IN  drawn([i \in DOMAIN state.api_pool |-> housekeeping(state.api_pool[i])])

\* A failed poll that also forgets the last api used with success.
error_forgets_last(state, api) ==
    IF api # null
    THEN [state EXCEPT !.api_pool[api[1]].errors = @ + 1, !.api_last = null]
    ELSE state

\* tapos_manager_error: the state of the chain after an error with the api.
tapos_manager_error(state, api) ==
    IF api # null
    THEN [state EXCEPT !.api_pool[api[1]].errors = @ + 1]
    ELSE state

\* tapos_manager_finish: the state of the chain after a successful poll of
\* the api.
tapos_manager_finish(state, api) ==
    IF api # null
    THEN [state EXCEPT
             !.api_pool[api[1]].errors = IF @ > 0 THEN @ - 1 ELSE @,
             !.api_last = Some(state.api_pool[api[1]].host)]
    ELSE state

\* Buffer.from(text, 'hex'): one byte per pair of hexadecimal digits, up to
\* the first pair that is not one.
HexValues == {i \in 0 .. 15 : TRUE}

IsHexDigit(c) == \E i \in HexValues : HexDigits[i + 1] = c

HexValue(c) == CHOOSE i \in HexValues : HexDigits[i + 1] = c

RECURSIVE fromHex(_)
fromHex(text) ==
    IF Len(text) < 2 \/ ~IsHexDigit(text[1]) \/ ~IsHexDigit(text[2]) THEN << >>
    ELSE << HexValue(text[1]) * 16 + HexValue(text[2]) >> \o fromHex(SubSeq(text, 3, Len(text)))

\* buf.readUInt32LE(offset) for a buffer that holds the four bytes.
readUInt32LE(buf, offset) ==
    buf[offset + 1] + buf[offset + 2] * 256 + buf[offset + 3] * 65536
        + buf[offset + 4] * 16777216

\* What becomes of a get_info request: no response (a transport error), or
\* a body that JSON.parse rejects or reads as the fields given.
NoResponse ==
    [arrives |-> FALSE, parses |-> FALSE, chain_id |-> "",
     last_irreversible_block_num |-> 0, last_irreversible_block_id |-> << >>]

Garbled == [NoResponse EXCEPT !.arrives = TRUE]

Info(chain_id, block_num, block_id) ==
    [arrives |-> TRUE, parses |-> TRUE, chain_id |-> chain_id,
     last_irreversible_block_num |-> block_num,
     last_irreversible_block_id |-> block_id]

\* The handlers of tapos_manager_run, lines 703-742: how the request ends
\* for a chain with the given hash.
get_info_outcome(response, hash) ==
    IF ~response.arrives THEN "transport"
    ELSE IF ~response.parses THEN "parse"
    ELSE IF Len(fromHex(response.last_irreversible_block_id)) < 12 THEN "range"
    ELSE IF response.chain_id # hash THEN "mismatch"
    ELSE "success"

\* Variants of the handlers that the properties below must tell from the
\* handlers of the source: one that keeps ref_block_num of a response with
\* another chain_id, one that forgets api_last on an error.
acquire_tapos_early(state, response) ==
    IF get_info_outcome(response, state.hash) \in {"mismatch", "success"}
    THEN [state EXCEPT
             !.tapos.ref_block_num = response.last_irreversible_block_num % 65536,
             !.tapos.ref_block_prefix =
                 IF response.chain_id = state.hash
                 THEN readUInt32LE(fromHex(response.last_irreversible_block_id), 8)
                 ELSE @]
    ELSE state

\* tapos_manager_run, lines 711-721: the state of the chain after the
\* handler of 'end' has read the response.
acquire_tapos(state, response) ==
    IF get_info_outcome(response, state.hash) = "success"
    THEN [state EXCEPT !.tapos =
             [acq_time_epoch |-> 0,
              ref_block_num |-> response.last_irreversible_block_num % 65536,
              ref_block_prefix |->
                  readUInt32LE(fromHex(response.last_irreversible_block_id), 8)]]
    ELSE state

\* tapos_manager_run, lines 692-697 and 743-745: a run of the manager of
\* chain k, whose random draws are draws, started by one of the pending
\* timers of the chain: the timer a request of the chain still holds in
\* timeout, or (fired = 0) one that no request holds; the first run of a
\* chain is started by the loop at lines 633-636, with no timer (fired = 0).
\* The run sets the timer of the next run in the normal interval and issues a
\* get_info request to the api selected; with no api it calls
\* tapos_manager_error with a name that is not defined, which throws.
tapos_manager_run(k, draws) ==
    /\ ~crashed
    /\ \E holders \in {{p \in requests : p.chain = k /\ p.timeout}} :
       \E fired \in {p.id : p \in holders}
                        \cup (IF timers[k] = 0 \/ timers[k] > Cardinality(holders)
                              THEN {0} ELSE {}) :
       \E sel \in {tapos_manager_select_pool(tapos_manager_state[k], draws)} :
       \E others \in {{[p EXCEPT !.timeout = @ /\ p.id # fired] : p \in requests}} :
          /\ tapos_manager_state' = [tapos_manager_state EXCEPT ![k] = sel.state]
          /\ IF sel.api # null
             THEN /\ requests' = others \cup
                                    {[id |-> tick.count + 1, chain |-> k, api |-> sel.api[1],
                                      timeout |-> TRUE]}
                  /\ UNCHANGED crashed
             ELSE /\ crashed' = TRUE
                  /\ requests' = others
          /\ tick' =
                 [count |-> tick.count + 1,
                  chain |-> k,
                  api |-> IF sel.api # null THEN sel.api[1] ELSE 0,
                  errors |-> IF sel.api # null
                             THEN sel.state.api_pool[sel.api[1]].errors ELSE 0,
                  quarantined |->
                      \A i \in DOMAIN sel.state.api_pool :
                          sel.state.api_pool[i].errors >= TAPOS_MANAGER_API_ERRORS_MAX,
                  used |-> \E i \in DOMAIN sel.state.api_pool :
                              sel.state.api_pool[i].use_count
                                  # tapos_manager_state[k].api_pool[i].use_count,
                  issued |-> sel.api # null,
                  next_run |-> "normal"]
    /\ timers' = [timers EXCEPT ![k] = IF @ = 0 THEN 1 ELSE @]
    /\ UNCHANGED << in_flight, responses, item_count, posted, sweep, removal, poll,
                    reassembler_vars, plan, codec, loop >>

\* tapos_manager_run, lines 698-742: the get_info request p ends with the
\* given response.  On an error tapos_manager_error clears the timer the run
\* had set, which removes it if it is still pending, and sets a timer in the
\* error interval.
response_end(p, response) ==
    /\ ~crashed
    /\ p \in requests
    /\ requests' = requests \ {p}
    /\ \E read \in {acquire_tapos(tapos_manager_state[p.chain], response)} :
          tapos_manager_state' =
              [tapos_manager_state EXCEPT ![p.chain] =
                  IF get_info_outcome(response, @.hash) = "success"
                  THEN tapos_manager_finish(read, Some(p.api))
                  ELSE tapos_manager_error(read, Some(p.api))]
    /\ timers' = [timers EXCEPT ![p.chain] =
                     IF get_info_outcome(response, tapos_manager_state[p.chain].hash)
                            = "success" \/ p.timeout
                     THEN @ ELSE @ + 1]
    /\ poll' = [chain |-> p.chain, api |-> p.api,
                outcome |-> get_info_outcome(response,
                                             tapos_manager_state[p.chain].hash)]
    /\ UNCHANGED << in_flight, responses, crashed, item_count, posted, sweep, removal,
                    tick, reassembler_vars, plan, codec, loop >>

\* ------------------------------------------------------------------------
\* Specifications.
\* ------------------------------------------------------------------------
NoCodec == [op |-> "none"]

\* The event loop at the start: no request is ready, no callback is in progress.
NoLoop == [queue |-> << >>, running |-> {}, arrived |-> 0]

NoPlan == [variant |-> [header |-> 0, chain |-> 0, content |-> 0], payloads |-> << >>]

\* Spec: one device sends payloads of up to MaxFrags fragments.
Init ==
    InitReassembler /\ InitServer /\ plan = NoPlan /\ codec = NoCodec /\ loop = NoLoop

Decode ==
    \E bytes \in Payloads : Uplink(1, bytes) /\ UNCHANGED << plan, server_vars, codec, loop >>

Next == Decode

Spec == Init /\ [][Next]_vars

\* SpecOrder: one device sends the four fragments of one transaction, in
\* any order and split in any way over the uplinks.
Orders == {q \in DistinctKindSeqs : Len(q) = 4}

RECURSIVE SplitAt(_, _, _)
SplitAt(order, from, cuts) ==
    IF from > Len(order) THEN << >>
    ELSE LET ends == {c \in cuts \cup {Len(order)} : c >= from}
             e == CHOOSE c \in ends : \A d \in ends : c <= d
         IN  << SubSeq(order, from, e) >> \o SplitAt(order, e + 1, cuts)

PlanOf(order, cuts, v) ==
    LET groups == SplitAt(order, 1, cuts)
    IN  [variant |-> v, payloads |-> [i \in 1 .. Len(groups) |-> PayloadOf(groups[i], v)]]

InitOrder ==
    /\ InitReassembler
    /\ InitServer
    /\ codec = NoCodec
    /\ loop = NoLoop
    /\ plan \in {PlanOf(order, cuts, v) :
                    order \in Orders, cuts \in SUBSET (1 .. 3), v \in OrderVariants}

SendNext ==
    /\ plan.payloads # << >>
    /\ Uplink(1, Head(plan.payloads))
    /\ plan' = [plan EXCEPT !.payloads = Tail(@)]
    /\ UNCHANGED << server_vars, codec, loop >>

NextOrder == SendNext

SpecOrder == InitOrder /\ [][NextOrder]_vars

\* SpecDevices: two devices send fragments of their transactions, both
\* with transaction id 5.
DeviceUplink ==
    \E key \in DeviceKeys, bytes \in DevicePayloads :
        Uplink(key, bytes) /\ UNCHANGED << plan, server_vars, codec, loop >>

NextDevices == DeviceUplink

SpecDevices == Init /\ [][NextDevices]_vars

\* SpecMalformed: one device sends payloads that are cut short or hold a
\* byte that is no channel.
Malformed ==
    \E bytes \in MalformedPayloads :
        Uplink(1, bytes) /\ UNCHANGED << plan, server_vars, codec, loop >>

NextMalformed == Malformed

SpecMalformed == Init /\ [][NextMalformed]_vars

\* SpecPurge: one device sends the fragments of two transactions with the ids
\* 5 and 6, one to a payload, and between two uplinks 300 or 301 seconds can
\* pass, MaxWaits times.
MaxWaits == 2

UplinkAt ==
    \E bytes \in PurgePayloads :
        Uplink(1, bytes) /\ UNCHANGED << plan, server_vars, codec, loop >>

Wait ==
    \E seconds \in {300, 301} :
        /\ epoch.now + seconds <= MaxWaits * 301
        /\ epoch' = [epoch EXCEPT !.now = @ + seconds]
        /\ UNCHANGED << trx_map, dispatcher_queue, device_states, origin, last, plan,
                        server_vars, codec, loop >>

NextPurge == UplinkAt \/ Wait

SpecPurge == Init /\ [][NextPurge]_vars

\* SpecDispatch: uplinks whose decoder result is any of DecoderResults and
\* that name no downlink url, the successful polls of the TAPOS manager and
\* the completions of the POSTs.
Ingress ==
    \E port \in Ports, dresult \in DecoderResults :
        decodeHelium(port, 1, dresult, FALSE)

Completion == \E p \in in_flight : remove_trx(p)

PollSuccess ==
    \E k \in ChainKeys, i \in 1 .. 2 :
        /\ ~crashed
        /\ tapos_manager_state' =
               [tapos_manager_state EXCEPT ![k] = tapos_manager_finish(@, Some(i))]
        /\ UNCHANGED << in_flight, responses, crashed, item_count, posted, sweep,
                        removal, manager_vars, reassembler_vars, plan, codec, loop >>

NextDispatch == Ingress \/ Completion \/ PollSuccess

SpecDispatch == Init /\ [][NextDispatch]_vars

\* SpecIngress: uplinks with and without a downlink url whose decoder result
\* is any of DecoderResults for the test chain or for a chain that is not
\* known, the polls of the test chain that its first api answers, the
\* completions of the POSTs of transactions and of downlinks.  SpecIngressFair
\* adds that a POST that was made does not stay without response or error for
\* ever.
Request ==
    \E port \in Ports, dresult \in {d \in DecoderResults : d.chain # 1}, url \in BOOLEAN :
        decodeHelium(port, 1, dresult, url)

DownlinkEnd == \E r \in DOMAIN responses : dispatch_tapos_end(r)

PollTestnet ==
    /\ ~crashed
    /\ tapos_manager_state' =
           [tapos_manager_state EXCEPT !["TELOS_TESTNET"] =
               tapos_manager_finish(
                   acquire_tapos(@, Info(ChainHash["TELOS_TESTNET"], 65537,
                                         toHex(<< 0, 0, 0, 0, 0, 0, 0, 0, 1, 0, 0, 0 >>))),
                   Some(1))]
    /\ UNCHANGED << in_flight, responses, crashed, item_count, posted, sweep,
                    removal, manager_vars, reassembler_vars, plan, codec, loop >>

NextIngress == Request \/ Completion \/ PollTestnet \/ DownlinkEnd

SpecIngress == Init /\ [][NextIngress]_vars

SpecIngressFair == SpecIngress /\ WF_vars(Completion) /\ WF_vars(DownlinkEnd)

\* SpecTapos: the runs of the TAPOS managers and the responses to their
\* get_info requests.  A pool starts as the source declares it or as earlier
\* runs can have left it: one entry with five failed polls, the same entry
\* after nine more runs that polled the other entry with success, both
\* entries with five failed polls.
BlockIdA == toHex(<< 0, 0, 0, 0, 0, 0, 0, 0, 1, 0, 0, 0 >>)

BlockIdB == toHex(<< 0, 0, 0, 0, 0, 0, 0, 0, 2, 1, 0, 0 >>)

Responses ==
    { NoResponse, Garbled }
        \cup {Info(ChainHash[k], 65537, BlockIdA) : k \in ChainKeys}
        \cup {Info(ChainHash[k], 2, BlockIdB) : k \in ChainKeys}
        \cup {Info(ChainHash["TELOS_TESTNET"], 4, << "0", "4" >>)}

PoolSnapshots(k) ==
    { [pool |-> FreshPool(k), api_last |-> null, response |-> NoResponse],
      [pool |-> << PoolEntry(PoolHosts[k][1], 5, 0, 5), PoolEntry(PoolHosts[k][2], 0, 0, 0) >>,
       api_last |-> null, response |-> NoResponse],
      [pool |-> << PoolEntry(PoolHosts[k][1], 5, 9, 5), PoolEntry(PoolHosts[k][2], 0, 0, 9) >>,
       api_last |-> Some(PoolHosts[k][2]), response |-> Info(ChainHash[k], 2, BlockIdB)],
      [pool |-> << PoolEntry(PoolHosts[k][1], 5, 0, 5), PoolEntry(PoolHosts[k][2], 5, 0, 5) >>,
       api_last |-> null, response |-> NoResponse] }

SnapshotState(k, snapshot) ==
    [acquire_tapos(ManagerState(k, snapshot.pool), snapshot.response)
        EXCEPT !.api_last = snapshot.api_last]

InitTapos ==
    /\ InitReassembler
    /\ plan = NoPlan
    /\ codec = NoCodec
    /\ loop = NoLoop
    /\ tapos_manager_state \in
           {[k \in ChainKeys |->
                SnapshotState(k, IF k = "TELOS_TESTNET" THEN a ELSE b)] :
            a \in PoolSnapshots("TELOS_TESTNET"),
            b \in {c \in PoolSnapshots("TELOS_MAINNET") : c.pool[1].errors = c.pool[2].errors}}
    /\ requests = {}
    /\ timers = [k \in ChainKeys |-> 1]
    /\ tick = NoTick
    /\ poll = NoPoll
    /\ in_flight = {}
    /\ responses = NoResponses
    /\ crashed = FALSE
    /\ item_count = 0
    /\ posted = << >>
    /\ sweep = [posted |-> {}, skipped |-> {}]
    /\ removal = [item |-> 0, removed |-> {}]

\* The random draws of a selection: some draws of one entry followed by
\* draws of another (or the same) entry.
Draws ==
    {[n \in 1 .. attempts |-> IF n <= j THEN a ELSE b] :
        j \in 0 .. attempts, a \in 1 .. 2, b \in 1 .. 2}

Tick ==
    \E k \in ChainKeys, draws \in Draws :
        /\ tick.count < MaxTicks
        /\ Cardinality(requests) < MaxPending
        /\ tapos_manager_run(k, draws)

Response == \E p \in requests, response \in Responses : response_end(p, response)

NextTapos == Tick \/ Response

SpecTapos == InitTapos /\ [][NextTapos]_vars

\* SpecCodec: calls of the encoder, of the engine and of the primitive
\* decoders on their own; codec holds what the last call was given and what
\* it gave.
\*
\* A number of a value vector is hi * 2^31 + lo, so that the numbers up to
\* 2^32 - 1 can be written; a number a decoder pushed is a 32-bit integer.
Number(hi, lo) == [hi |-> hi, lo |-> lo]

FromInt32(i) == Number(0, i)

\* The 32-bit integer the bit operators make of a number.
ToInt32(x) == IF x.hi = 1 THEN Int32Of(x.lo, TRUE) ELSE x.lo

MaxInt32 == 2147483647

FixedLength == 2

\* Values of each primitive, inside its range.
ValuesOf(kind) ==
    CASE kind = "u8" -> << Number(0, 0), Number(0, 255) >>
      [] kind = "u16" -> << Number(0, 258), Number(0, 65535) >>
      [] kind = "u32" ->
            << Number(0, 0), Number(0, 16909060), Number(0, MaxInt32),
             Number(1, 0), Number(1, MaxInt32) >>
      [] kind = "varuint32" ->
            << Number(0, 0), Number(0, 127), Number(0, 128), Number(0, 300),
             Number(0, MaxInt32), Number(1, 0), Number(1, MaxInt32) >>
      [] kind = "varint32" ->
            << Number(0, 0), Number(0, 1), Number(0, -1), Number(0, 64),
             Number(0, -65), Number(0, MaxInt32), Number(0, MinInt32) >>
      [] kind = "fixed_bytes" -> << << 1, 2 >> >>
      [] kind = "dyn_bytes" -> << << >>, << 7 >>, << 1, 2, 3 >> >>

PrimitiveKinds ==
    {"u8", "u16", "u32", "varuint32", "varint32", "fixed_bytes", "dyn_bytes"}

\* A primitive with one of its values.
FieldValues ==
    UNION {{[kind |-> kind, pick |-> j] : j \in 1 .. Len(ValuesOf(kind))} :
              kind \in PrimitiveKinds}

ValueOf(field) == ValuesOf(field.kind)[field.pick]

\* A schema with a value for each of its primitives.
RoundtripCases == UNION {[1 .. n -> FieldValues] : n \in 1 .. MaxFields}

\* field_encoder.fn(buf, bit_index, data, field_encoder.args)
RunEncoder(kind, data) ==
    CASE kind = "u8" -> uint8_encoder(ToInt32(data))
      [] kind = "u16" -> uint16_encoder(ToInt32(data))
      [] kind = "u32" -> uint32_encoder(ToInt32(data))
      [] kind = "varuint32" -> varuint32_encoder(ToInt32(data))
      [] kind = "varint32" -> varint32_encoder(ToInt32(data))
      [] kind = "fixed_bytes" -> fixed_bytearray_encoder(data, FixedLength)
      [] kind = "dyn_bytes" -> dynamic_bytearray_encoder(data)

\* encoder_run on a schema without nested schemas: the bytes pushed.
RECURSIVE encoder_run_fields(_, _)
encoder_run_fields(fields, i) ==
    IF i > Len(fields) THEN << >>
    ELSE RunEncoder(fields[i].kind, ValueOf(fields[i]))
             \o encoder_run_fields(fields, i + 1)

\* The entry of the decoder's schema that matches the encoder's.
MatchingDecoder(kind) ==
    CASE kind = "u8" -> Prim("uint8_decoder", 0)
      [] kind = "u16" -> Prim("uint16_decoder", 0)
      [] kind = "u32" -> Prim("uint32_decoder", 0)
      [] kind = "varuint32" -> Prim("varuint32_decoder", 0)
      [] kind = "varint32" -> Prim("varint32_decoder", 0)
      [] kind = "fixed_bytes" -> Prim("fixed_bytearray_decoder", FixedLength)
      [] kind = "dyn_bytes" -> Prim("dynamic_bytearray_decoder", 0)

Roundtrip ==
    /\ codec.op = "pending"
    /\ codec.call = "roundtrip"
    /\ \E fields \in {codec.fields} :
       \E bytes \in {encoder_run_fields(fields, 1)} :
       \E d \in {decoder_run(bytes, 0, << >>,
                      [i \in 1 .. Len(fields) |-> MatchingDecoder(fields[i].kind)])} :
        /\ codec' = [op |-> "roundtrip", fields |-> fields, bytes |-> bytes,
                     res |-> d.res, out |-> d.out]
        /\ UNCHANGED << reassembler_vars, plan, server_vars, loop >>

\* The schemas of a channel map of sensor channels: the temperature (16
\* bits), one particle count (10 bits), a name, and the satcom record.
Bitfield(sign, i_bits, f_bits) ==
    [fn |-> "bitfield_decoder", length |-> 0, sub |-> << >>,
     sign |-> sign, i_bits |-> i_bits, f_bits |-> f_bits]

temperature_decoder == << Bitfield(1, 12, 4) >>

particle_count_decoder == << Bitfield(0, 10, 0) >>

account_decoder == << Prim("name_decoder", 0) >>

satcom_decoder == << Prim("uint8_decoder", 0), Prim("varuint32_decoder", 0) >>

sensor_map ==
    (1 :> [decoder |-> temperature_decoder, processor |-> ""])
    @@ (2 :> [decoder |-> particle_count_decoder, processor |-> ""])
    @@ (3 :> [decoder |-> account_decoder, processor |-> ""])
    @@ (4 :> [decoder |-> satcom_decoder, processor |-> ""])

\* encoder_run on a schema of primitives (the sensor schemas nest no
\* schema): provider.shift() hands values[i] to the i-th primitive, which is
\* entered at bit_index + encoded_bits.  The byte encoders push their bytes
\* and do not look at the bit index.
RECURSIVE sensor_encoder_run(_, _, _, _, _, _)
sensor_encoder_run(buf, bit_index, schema, values, i, encoded_bits) ==
    IF i > Len(schema)
    THEN [res |-> encoded_bits, buf |-> buf]
    ELSE LET field(entry, at, data) ==
                 CASE entry.fn = "bitfield_encoder" ->
                        bitfield_encoder(buf, at, data, entry)
                   [] entry.fn = "uint8_encoder" ->
                        [res |-> 8, buf |-> buf \o uint8_encoder(data)]
                   [] entry.fn = "uint32_encoder" ->
                        [res |-> 32, buf |-> buf \o uint32_encoder(data)]
             rest(r) ==
                 sensor_encoder_run(r.buf, bit_index, schema, values, i + 1,
                                    encoded_bits + r.res)
         IN  rest(field(schema[i], bit_index + encoded_bits, values[i]))

\* encoder(channel_list, encoder_map): the channel byte is pushed and the
\* bit index goes on by 8 and by the bits of the schema; channels that the
\* map does not have are left out.
RECURSIVE sensor_encoder(_, _, _, _)
sensor_encoder(channel_list, encoder_map, buf, bit_index) ==
    IF channel_list = << >> THEN buf
    ELSE LET chan == Head(channel_list)
             run(r) ==
                 sensor_encoder(Tail(channel_list), encoder_map, r.buf,
                                bit_index + 8 + r.res)
         IN  IF chan \in DOMAIN encoder_map
             THEN run(sensor_encoder_run(Append(buf, chan), bit_index + 8,
                                         encoder_map[chan].encoder,
                                         encoder_map[chan].provider, 1, 0))
             ELSE sensor_encoder(Tail(channel_list), encoder_map, buf, bit_index)

BitfieldEncoder(sign, i_bits, f_bits) ==
    [fn |-> "bitfield_encoder", sign |-> sign, i_bits |-> i_bits, f_bits |-> f_bits]

ByteEncoder(fn) == [fn |-> fn, sign |-> 0, i_bits |-> 0, f_bits |-> 0]

\* The maps of the encoder's test, with one more channel, 5, whose schema is
\* a single count of 10 bits: channel -> schema and what the provider
\* returns (-12.6875 degrees; flags and four counts; a count; flags and an
\* epoch), and channel -> the matching decoder schema and its processor.
encoder_map ==
    (0 :> [encoder |-> << BitfieldEncoder(1, 12, 4) >>,
           provider |-> << Fraction(-203, 4) >>])
    @@ (1 :> [encoder |-> << ByteEncoder("uint8_encoder"),
                             BitfieldEncoder(0, 10, 0), BitfieldEncoder(0, 10, 0),
                             BitfieldEncoder(0, 10, 0), BitfieldEncoder(0, 10, 0) >>,
              provider |-> << 3, Fraction(1023, 0), Fraction(36, 0),
                              Fraction(0, 0), Fraction(557, 0) >>])
    @@ (5 :> [encoder |-> << BitfieldEncoder(0, 10, 0) >>,
              provider |-> << Fraction(557, 0) >>])
    @@ (10 :> [encoder |-> << ByteEncoder("uint8_encoder"),
                              ByteEncoder("uint32_encoder") >>,
               provider |-> << 1, 16909060 >>])

decoder_map ==
    (0 :> [decoder |-> temperature_decoder, processor |-> "temp_processor"])
    @@ (1 :> [decoder |-> << Prim("uint8_decoder", 0),
                             Bitfield(0, 10, 0), Bitfield(0, 10, 0),
                             Bitfield(0, 10, 0), Bitfield(0, 10, 0) >>,
              processor |-> "pm_processor"])
    @@ (5 :> [decoder |-> particle_count_decoder,
              processor |-> "count_processor"])
    @@ (10 :> [decoder |-> << Prim("uint8_decoder", 0), Prim("uint32_decoder", 0) >>,
               processor |-> "time_processor"])

\* The channel lists of up to MaxChannels channels of the map.
MaxChannels == 3

ChannelLists == UNION {[1 .. n -> DOMAIN encoder_map] : n \in 1 .. MaxChannels}

\* encoder on a channel list, and decoder on the payload it built.
ListRoundtrip ==
    /\ codec.op = "pending"
    /\ codec.call = "list"
    /\ \E bytes \in {sensor_encoder(codec.list, encoder_map, << >>, 0)} :
       \E d \in {decoder_frames(bytes, decoder_map)} :
        /\ codec' = [op |-> "list", list |-> codec.list, bytes |-> bytes,
                     result |-> d.result, invoked |-> d.frames]
        /\ UNCHANGED << reassembler_vars, plan, server_vars, loop >>

\* The bit fields of the temperature, particle and humidity schemas, and for
\* each the values at the two ends of its range and beyond them: data is
\* scaled / 2^f_bits.
BitfieldArgs == {Bitfield(1, 12, 4), Bitfield(0, 10, 0), Bitfield(0, 7, 1)}

\* The smallest and the largest value a field holds, scaled.
SmallestOf(args) ==
    IF args.sign = 1 THEN -Pow2(args.i_bits + args.f_bits - 1) ELSE 0

LargestOf(args) == Pow2(args.i_bits + args.f_bits - args.sign) - 1

BitfieldValues(args) ==
    {SmallestOf(args) + k * Pow2(args.f_bits) : k \in {-1000, -1, 0, 1}}
        \cup {LargestOf(args) + 1 - Pow2(args.f_bits) + k * Pow2(args.f_bits) :
                k \in {-1, 0, 1, 2, 1000}}
        \cup {-1, 0, 1}

\* bitfield_encoder on an empty payload, and bitfield_decoder on what it
\* built.
BitfieldRoundtrip ==
    /\ codec.op = "pending"
    /\ codec.call = "bitfield"
    /\ \E e \in {bitfield_encoder(<< >>, 0, Fraction(codec.scaled, codec.args.f_bits),
                                  codec.args)} :
       \E r \in {bitfield_decoder(e.buf, 0, << >>, codec.args)} :
        /\ codec' = [op |-> "bitfield", args |-> codec.args, scaled |-> codec.scaled,
                     buf |-> e.buf, res |-> r.res, out |-> r.out]
        /\ UNCHANGED << reassembler_vars, plan, server_vars, loop >>

\* The values at the ends of the ranges that take 1, 2, 3, 4 and 5 bytes as
\* a varuint32 (a 32 bit integer with bit 31 set is written as the negative
\* number that has the same bits), and buffers of up to MaxContinuation
\* bytes with the continuation bit set, with and without a last byte.
VaruintValues ==
    {0, 127, 128, 16383, 16384, 2097151, 2097152, 268435455, 268435456,
     MaxInt32, MinInt32, -1}

MaxContinuation == 7

VaruintBufs ==
    UNION {{[i \in 1 .. n |-> 255], [i \in 1 .. n |-> 129] \o << 1 >>} :
             n \in 0 .. MaxContinuation}

VaruintEncode ==
    /\ codec.op = "pending"
    /\ codec.call = "varuint32_encoder"
    /\ codec' = [op |-> "varuint32_encoder", data |-> codec.data,
                 bytes |-> varuint32_encoder(codec.data)]
    /\ UNCHANGED << reassembler_vars, plan, server_vars, loop >>

VaruintDecode ==
    /\ codec.op = "pending"
    /\ codec.call = "varuint32_decoder"
    /\ \E r \in {varuint32_decoder(codec.buf, 0, << >>)} :
        /\ codec' = [op |-> "varuint32_decoder", buf |-> codec.buf,
                     res |-> r.res, out |-> r.out]
        /\ UNCHANGED << reassembler_vars, plan, server_vars, loop >>

\* The payloads of the sensor channels: every sequence of up to MaxBytes
\* bytes that are 1 .. 4 or 200.
EngineBytes == {1, 2, 3, 4, 200}

EnginePayloads == UNION {[1 .. n -> EngineBytes] : n \in 0 .. MaxBytes}

EngineRun ==
    /\ codec.op = "pending"
    /\ codec.call = "engine"
    /\ \E bytes \in {codec.bytes} :
       \E d \in {decoder_frames(bytes, sensor_map)} :
        /\ codec' = [op |-> "engine", bytes |-> bytes, result |-> d.result,
                     reads |-> d.reads, ends |-> d.ends]
        /\ UNCHANGED << reassembler_vars, plan, server_vars, loop >>

\* The primitive decoders that work on whole bytes, each entered at every
\* bit index of three buffers with an empty output vector.
WholeBytePrimitives ==
    {Prim("uint8_decoder", 0), Prim("uint16_decoder", 0), Prim("uint32_decoder", 0),
     Prim("varuint32_decoder", 0), Prim("varint32_decoder", 0),
     Prim("name_decoder", 0), Prim("fixed_bytearray_decoder", FixedLength),
     Prim("dynamic_bytearray_decoder", 0)}

PrimitiveBufs == {<< >>, << 129 >>, << 2, 1, 2, 3, 4, 5, 6, 7, 8, 9 >>}

MaxBitIndex == 17

PrimitiveRun ==
    /\ codec.op = "pending"
    /\ codec.call = "primitive"
    /\ \E r \in {RunPrimitive(codec.entry, codec.buf, codec.bit_index, << >>)} :
        /\ codec' = [op |-> "primitive", fn |-> codec.entry.fn, buf |-> codec.buf,
                     bit_index |-> codec.bit_index, res |-> r.res, out |-> r.out]
        /\ UNCHANGED << reassembler_vars, plan, server_vars, loop >>

\* The payloads of the transaction channels: whole payloads, and payloads
\* that end inside their last frame (after front, the frames of the kinds
\* before it): at every length from the channel byte alone to one byte short,
\* and after a length byte of the data that announces a further length byte.
CutFronts == {<< >>, << 0 >>}

WholePayloads ==
    {[bytes |-> PayloadOf(q, v), whole |-> Len(q), cut |-> FALSE] :
        q \in KindSeqs(MaxFrags), v \in Variants}

CutPayloads ==
    UNION {{[bytes |-> PayloadOf(front, v) \o SubSeq(PayloadOf(<< kind >>, v), 1, n),
             whole |-> Len(front), cut |-> TRUE] :
               n \in 1 .. Len(PayloadOf(<< kind >>, v)) - 1} :
           front \in CutFronts, kind \in Kinds, v \in Variants}
        \cup {[bytes |-> PayloadOf(front, v) \o << 2, v.header, 129 >>,
                whole |-> Len(front), cut |-> TRUE] :
               front \in CutFronts, v \in Variants}

\* decoder on a payload of the transaction channels, with the table of a
\* device that has sent nothing yet: invoked lists the processor calls made,
\* up to the one that throws if one does; reads and ends are the bit indices
\* of the channel bytes and of the ends of the frames decoded until then.
AntelopeRun ==
    /\ codec.op = "pending"
    /\ codec.call = "antelope"
    /\ \E d \in {decoder_frames(codec.bytes, channel_map)} :
       \E states \in {decoder_states(d.frames, 1,
                          << [trx_map |-> EmptyMap, dispatcher_queue |-> EmptyQueues,
                              thrown |-> FALSE] >>)} :
       \E n \in {Len(states) - 1} :
       \E thrown \in {states[Len(states)].thrown} :
        /\ codec' = [op |-> "antelope", bytes |-> codec.bytes, whole |-> codec.whole,
                     cut |-> codec.cut, thrown |-> thrown,
                     result |-> IF thrown THEN RESULT_OK ELSE d.result,
                     invoked |-> SubSeq(d.frames, 1, n),
                     reads |-> IF thrown THEN SubSeq(d.reads, 1, n) ELSE d.reads,
                     ends |-> IF thrown THEN SubSeq(d.ends, 1, n) ELSE d.ends]
        /\ UNCHANGED << reassembler_vars, plan, server_vars, loop >>

\* The call to make and what it is given.
InitCodec ==
    /\ InitReassembler
    /\ InitServer
    /\ plan = NoPlan
    /\ loop = NoLoop
    /\ \/ \E fields \in RoundtripCases :
              codec = [op |-> "pending", call |-> "roundtrip", fields |-> fields]
       \/ \E bytes \in EnginePayloads :
              codec = [op |-> "pending", call |-> "engine", bytes |-> bytes]
       \/ \E input \in WholePayloads \cup CutPayloads :
              codec = [op |-> "pending", call |-> "antelope", bytes |-> input.bytes,
                       whole |-> input.whole, cut |-> input.cut]
       \/ \E entry \in WholeBytePrimitives, buf \in PrimitiveBufs,
                bit_index \in 0 .. MaxBitIndex :
              codec = [op |-> "pending", call |-> "primitive", entry |-> entry,
                       buf |-> buf, bit_index |-> bit_index]
       \/ \E list \in ChannelLists :
              codec = [op |-> "pending", call |-> "list", list |-> list]
       \/ \E args \in BitfieldArgs :
          \E scaled \in BitfieldValues(args) :
              codec = [op |-> "pending", call |-> "bitfield", args |-> args,
                       scaled |-> scaled]
       \/ \E data \in VaruintValues :
              codec = [op |-> "pending", call |-> "varuint32_encoder", data |-> data]
       \/ \E buf \in VaruintBufs :
              codec = [op |-> "pending", call |-> "varuint32_decoder", buf |-> buf]

NextCodec ==
    \/ Roundtrip \/ EngineRun \/ PrimitiveRun \/ AntelopeRun
    \/ ListRoundtrip \/ BitfieldRoundtrip \/ VaruintEncode \/ VaruintDecode

SpecCodec == InitCodec /\ [][NextCodec]_vars

\* ------------------------------------------------------------------------
\* Properties of the reassembler.
\* ------------------------------------------------------------------------
\* The reassembler as it stands between two decoder calls.
Cur == [trx_map |-> trx_map, dispatcher_queue |-> dispatcher_queue, thrown |-> FALSE]

\* The payloads of Spec that carry one fragment, and the frame of each.
SinglePayloads == {PayloadOf(<< k >>, v) : k \in Kinds, v \in Variants}

FrameOf(p) == DecodedPayload[p].frames[1]

\* A fragment applied to a state of the reassembler.
Apply(f, st) == RunProcessor(f, [st EXCEPT !.thrown = FALSE])

Complete(trx) ==
    trx.signature # null /\ trx.tapos # null /\ trx.action # null /\ trx.data # null

\* The record a fragment leaves in a table that had no record of its id.
FreshRecord(f) == Apply(f, [Cur EXCEPT !.trx_map = EmptyMap]).trx_map[FrameId(f)]

\* The transaction the source builds from the four fragments of variant v.
TransactionOf(v) ==
    [signatures |-> << check_encode_k1(Provider(3, v)[2]) >>,
     compression |-> FALSE,
     packed_context_free_data |-> "",
     packed_trx |-> toHex(Provider(0, v)[3]
                          \o << 1 >> \o Provider(1, v)[2] \o << 1 >> \o Provider(1, v)[3]
                          \o Provider(2, v)[2])]

\* C1: in SpecOrder, whatever the order of the four fragment kinds and their
\* split over the uplinks, nothing is emitted before the last payload of the
\* plan is decoded, and once it is decoded exactly one transaction has been
\* emitted, to the chain of the TAPOS fragment, and it is the transaction of
\* the fragments whatever their order was.
C1_EmittedAtFourthKind ==
    IF plan.payloads # << >>
    THEN Emitted(dispatcher_queue) = 0
    ELSE /\ Emitted(dispatcher_queue) = 1
         /\ plan.variant.chain % 8 \in DOMAIN dispatcher_queue
         /\ dispatcher_queue[plan.variant.chain % 8] = << TransactionOf(plan.variant) >>

\* C2: whenever the last decoder call has returned, no record of the table
\* has all four of tapos, action, data and signature set.
C2_NoCompleteRecord ==
    last.outcome \in {"ok", "error"} =>
        \A id \in DOMAIN trx_map : ~Complete(trx_map[id])

\* C3: in every reachable state, a fragment whose field of the record is
\* already set leaves the whole record as it is, whatever the fragment
\* carries.
C3_FirstWriteWins ==
    \A p \in SinglePayloads :
        \A f \in {FrameOf(p)} :
            (/\ FrameId(f) \in DOMAIN trx_map
             /\ trx_map[FrameId(f)][FieldOf(f.processor)] # null) =>
                \A after \in {Apply(f, Cur).trx_map} :
                    /\ FrameId(f) \in DOMAIN after
                    /\ after[FrameId(f)] = trx_map[FrameId(f)]

\* C3 happens: the last call returned after it met a fragment whose content
\* differs from the content the field already had.
C3_Witness == last.ignored /\ last.outcome = "ok" /\ last.emitted = 0

\* C4, as stated: in every reachable state and for every fragment, the table
\* after the fragment is applied twice is the table after it is applied once.
C4_Idempotent ==
    \A p \in SinglePayloads :
        \A f \in {FrameOf(p)} :
            \A once \in {Apply(f, Cur)} :
                Apply(f, once).trx_map = once.trx_map

\* C4, amended: applying a fragment twice leaves the table that applying it
\* once leaves, unless the first application emits the transaction: then the
\* first application deletes the record and the second one leaves a record
\* that holds the fragment alone.
C4_IdempotentUnlessEmitted ==
    \A p \in SinglePayloads :
        \A f \in {FrameOf(p)} :
            \A once \in {Apply(f, Cur)} :
                \A twice \in {Apply(f, once)} :
                    IF once.dispatcher_queue = dispatcher_queue
                    THEN twice.trx_map = once.trx_map
                    ELSE /\ FrameId(f) \notin DOMAIN once.trx_map
                         /\ FrameId(f) \in DOMAIN twice.trx_map
                         /\ twice.trx_map[FrameId(f)] = FreshRecord(f)

\* C4 happens: the last call applied the same fragment twice in succession,
\* the first application emitted the transaction and the second left a record.
C4_Witness ==
    /\ last.twice
    /\ last.emitted = 1
    /\ last.outcome = "ok"
    /\ DOMAIN trx_map # {}

PackedLayout(tapos, action1, action2, data) ==
    toHex(tapos \o << 0, 0, 0 >> \o << 0 >>
          \o << 1 >> \o action1 \o << 1 >> \o action2
          \o varuint32_encoder(Len(data)) \o data)

\* C7: the packed_trx of every emitted transaction has the layout, for the
\* tapos, action and data bytes of some fragments received.
C7_PackedTrxLayout ==
    \A c \in DOMAIN dispatcher_queue :
        \A i \in 1 .. Len(dispatcher_queue[c]) :
            \E vt \in Variants, va \in Variants, vd \in Variants :
                dispatcher_queue[c][i].packed_trx =
                    PackedLayout(Provider(0, vt)[3], Provider(1, va)[2],
                                 Provider(1, va)[3], Provider(2, vd)[2])

\* C5: in SpecDevices, the fields of a record were all set by fragments of
\* one device.
C5_RecordOfOneDevice ==
    \A id \in DOMAIN origin :
        \A f \in Fields, g \in Fields :
            (origin[id][f] # null /\ origin[id][g] # null) =>
                origin[id][f] = origin[id][g]

\* ------------------------------------------------------------------------
\* Properties of the dispatch queues.
\* ------------------------------------------------------------------------
\* C8: the completion of the POST of an item removes that item from the
\* queue, and no other.
C8_CompletionRemovesItsItem ==
    removal.item # 0 => removal.removed = {removal.item}

\* C9: no item is POSTed more than once.
C9_PostedAtMostOnce == \A i \in DOMAIN posted : posted[i] <= 1

\* C9 happens: the last sweep passed over an item that was started and
\* POSTed before, after the POST of some item had completed.
C9_Witness ==
    /\ \E i \in sweep.skipped : posted[i] = 1
    /\ sweep.posted # {}
    /\ removal.item # 0

\* Every item of the queue is started and was POSTed once, by the count.
AllStarted(state, count) ==
    \A t \in 1 .. Len(state.dispatch_queue) :
        /\ state.dispatch_queue[t].started
        /\ count[state.dispatch_queue[t].item] = 1

\* No item of the queue is started or was ever POSTed.
NoneStarted(state) ==
    \A t \in 1 .. Len(state.dispatch_queue) :
        /\ ~state.dispatch_queue[t].started
        /\ posted[state.dispatch_queue[t].item] = 0

\* C10: a POST is made only for a chain whose api_last is set, to the host of
\* api_last at that time; while api_last of a chain is unset its items are
\* not started, were never POSTed and stay in the queue; and after a sweep
\* every item of a chain whose api_last is set is started and POSTed.
C10_DispatchFollowsApiLast ==
    /\ [](\A k \in ChainKeys :
             tapos_manager_state[k].api_last = null => NoneStarted(tapos_manager_state[k]))
    /\ [][/\ \A p \in in_flight' \ in_flight :
                 tapos_manager_state[p.chain].api_last = Some(p.host)
          /\ \A k \in ChainKeys :
                 tapos_manager_state[k].api_last = null =>
                     /\ Len(tapos_manager_state'[k].dispatch_queue)
                            >= Len(tapos_manager_state[k].dispatch_queue)
                     /\ \A t \in 1 .. Len(tapos_manager_state[k].dispatch_queue) :
                            tapos_manager_state'[k].dispatch_queue[t].item
                                = tapos_manager_state[k].dispatch_queue[t].item
          /\ \/ \A k \in ChainKeys :
                    tapos_manager_state'[k].api_last # null =>
                        AllStarted(tapos_manager_state'[k], posted')
             \/ ~\E dresult \in DecoderResults, url \in BOOLEAN :
                    decodeHelium(ELPP_PORT_LORAWAN, 1, dresult, url)]_vars

\* C10 happens: the last sweep POSTed items of one chain while an item of the
\* other chain, whose api_last is unset, stayed in its queue.
C10_Witness ==
    /\ sweep.posted # {}
    /\ \E k \in ChainKeys :
           /\ tapos_manager_state[k].api_last = null
           /\ tapos_manager_state[k].dispatch_queue # << >>

\* ------------------------------------------------------------------------
\* Properties of the TAPOS manager.
\* ------------------------------------------------------------------------
\* C11: the entry a selection returns has fewer than ERRORS_MAX errors when it
\* is returned, whatever the pool holds and whatever the draws are.
C11_QuarantinedNotReturned ==
    tick.api # 0 => tick.errors < TAPOS_MANAGER_API_ERRORS_MAX

\* C12: a run that finds every entry of the pool quarantined after the
\* housekeeping issues no get_info request, changes no use_count and leaves
\* the next run scheduled in the error interval.
C12_NoRequestWhenAllQuarantined ==
    tick.quarantined =>
        /\ ~tick.issued
        /\ ~tick.used
        /\ tick.next_run = "error"

\* A step in which a get_info request ends.
ResponseStep == requests' # requests /\ requests' \subseteq requests

\* C13: when a get_info request ends, the errors of the entry polled go down
\* by one (not below 0) and api_last becomes that entry if the poll
\* succeeded, the errors go up by one and api_last stays if it failed; the
\* errors of the other entries and the states of the other chains stay.
C13_PollEffect ==
    [][ResponseStep =>
           \A k \in ChainKeys :
               IF k # poll'.chain
               THEN tapos_manager_state'[k] = tapos_manager_state[k]
               ELSE /\ \A i \in DOMAIN tapos_manager_state[k].api_pool :
                          tapos_manager_state'[k].api_pool[i].errors =
                              IF i # poll'.api
                              THEN tapos_manager_state[k].api_pool[i].errors
                              ELSE IF poll'.outcome # "success"
                              THEN tapos_manager_state[k].api_pool[i].errors + 1
                              ELSE IF tapos_manager_state[k].api_pool[i].errors = 0
                              THEN 0
                              ELSE tapos_manager_state[k].api_pool[i].errors - 1
                    /\ tapos_manager_state'[k].api_last =
                          IF poll'.outcome = "success"
                          THEN Some(tapos_manager_state[k].api_pool[poll'.api].host)
                          ELSE tapos_manager_state[k].api_last]_vars

\* C13 happens: a poll failed on a chain-id mismatch while api_last was set,
\* and the entry polled has errors.
C13_Witness ==
    /\ poll.outcome = "mismatch"
    /\ tapos_manager_state[poll.chain].api_last # null
    /\ tapos_manager_state[poll.chain].api_pool[poll.api].errors > 0

\* The tapos of chain k is the initial one or the one of a single response
\* that carries the hash of the chain.
TaposOfOneResponse(k) ==
    \/ /\ tapos_manager_state[k].tapos.ref_block_num = 0
       /\ tapos_manager_state[k].tapos.ref_block_prefix = 0
    \/ \E r \in Responses :
           /\ r.arrives /\ r.parses
           /\ r.chain_id = ChainHash[k]
           /\ Len(r.last_irreversible_block_id) >= 24
           /\ tapos_manager_state[k].tapos.ref_block_num =
                  r.last_irreversible_block_num % 65536
           /\ tapos_manager_state[k].tapos.ref_block_prefix =
                  readUInt32LE(fromHex(r.last_irreversible_block_id), 8)

\* C14: ref_block_num and ref_block_prefix of a chain are always the initial
\* values or the values of one response with the hash of the chain, and a
\* request that ends otherwise than with success changes neither.
C14_TaposFromOneResponse ==
    /\ [](\A k \in ChainKeys : TaposOfOneResponse(k))
    /\ [][(ResponseStep /\ poll'.outcome # "success") =>
              \A k \in ChainKeys :
                  tapos_manager_state'[k].tapos = tapos_manager_state[k].tapos]_vars

\* C14 happens: a response with another chain_id arrived while the chain held
\* the tapos of an earlier response.
C14_Witness ==
    /\ poll.outcome = "mismatch"
    /\ tapos_manager_state[poll.chain].tapos.ref_block_num # 0
    /\ tapos_manager_state[poll.chain].tapos.ref_block_prefix # 0

\* ------------------------------------------------------------------------
\* Properties of the engine on malformed payloads.
\* ------------------------------------------------------------------------
\* C15: a payload with a byte that is no channel at the place of a channel
\* byte ends with CHANNEL_NOT_FOUND, the processors that run are those of the
\* frames before that byte and no other, and the table and the queues after
\* the call are those the frames before the byte leave.
C15_UnknownChannelStops ==
    \A x \in BrokenFrames :
        \A whole \in {DecodedPayload[BrokenPayload(x)]} :
        \A before \in {DecodedPayload[PayloadOf(x.pre, x.variant)]} :
            /\ whole.result = RESULT_CHANNEL_NOT_FOUND
            /\ before.result = RESULT_OK
            /\ whole.frames = before.frames
            /\ \A ends \in {decoder_states(whole.frames, 1, << Cur >>)} :
               \A kept \in {decoder_states(before.frames, 1, << Cur >>)} :
                   ends[Len(ends)] = kept[Len(kept)]

\* C15 happens: a call ended with CHANNEL_NOT_FOUND after a frame of the
\* same payload had completed a transaction, which stays in the queue.
C15_Witness ==
    /\ last.result = RESULT_CHANNEL_NOT_FOUND
    /\ last.outcome = "error"
    /\ last.emitted = 1
    /\ Emitted(dispatcher_queue) >= 1

\* C16: no decoder call ends in an exception.
C16_NeverThrows == last.outcome # "thrown"

\* C17: the value a call returns when the engine stopped on a failure differs
\* from the value a call returns when the payload decoded completely.
C17_ErrorCodeReturned ==
    last.outcome = "error" =>
        last.returned # Some(post_process(pre_process(processor_data)))

\* ------------------------------------------------------------------------
\* Properties of the codec.
\* ------------------------------------------------------------------------
\* What the decoder pushed for a field is the value the encoder was given.
SameValue(kind, pushed, value) ==
    IF kind \in {"fixed_bytes", "dyn_bytes"}
    THEN pushed = value
    ELSE FromInt32(pushed) = value

\* C18: decoding what the encoder made of a value vector, with the matching
\* schema, succeeds and gives that value vector.
C18_RoundTrip ==
    codec.op = "roundtrip" =>
        /\ codec.res >= 0
        /\ Len(codec.out) = Len(codec.fields)
        /\ \A i \in 1 .. Len(codec.fields) :
               SameValue(codec.fields[i].kind, codec.out[i], ValueOf(codec.fields[i]))

\* C19: every bit index at which the engine read a channel byte is a
\* multiple of 8 and at most 8 times the length of the payload.
C19_ChannelReadsAligned ==
    codec.op = "engine" =>
        \A i \in 1 .. Len(codec.reads) :
            /\ codec.reads[i] # NaN
            /\ codec.reads[i] % 8 = 0
            /\ codec.reads[i] <= 8 * Len(codec.bytes)

\* C19 happens: a schema ended at a bit index that is no multiple of 8 and
\* the engine read a channel byte after it.
C19_Witness ==
    /\ codec.op = "engine"
    /\ \E i \in 1 .. Len(codec.ends) :
           /\ codec.ends[i] # NaN
           /\ codec.ends[i] % 8 # 0
           /\ i < Len(codec.reads)

\* C20: a whole-byte primitive decoder entered at a bit index that is no
\* multiple of 8 returns a negative code and pushes nothing.
C20_UnalignedRejected ==
    (codec.op = "primitive" /\ codec.bit_index % 8 # 0) =>
        /\ Lt(codec.res, 0)
        /\ codec.out = << >>

\* ------------------------------------------------------------------------
\* Properties of the engine on payloads of the transaction channels.
\* ------------------------------------------------------------------------
\* C21: in SpecCodec, after a call of the engine on a payload of the
\* transaction channels, the processor calls made are, in their order, the
\* processors of the channel bytes read, in the order of their places in the
\* payload, one call for each frame whose schema was decoded without error and
\* none for another frame; and the output vector a processor was called with
\* is the output of the whole schema of its frame.
C21_ProcessorsInPayloadOrder ==
    codec.op = "antelope" =>
        /\ Len(codec.invoked) = Len(codec.ends)
        /\ Len(codec.ends) <= Len(codec.reads)
        /\ \A i \in 1 .. Len(codec.reads) - 1 : codec.reads[i] < codec.reads[i + 1]
        /\ \A i \in 1 .. Len(codec.invoked) :
              \A chan \in {ByteAt(codec.bytes, codec.reads[i] \div 8)} :
                 /\ chan \in DOMAIN channel_map
                 /\ codec.invoked[i].processor = channel_map[chan].processor
                 /\ \A r \in {decoder_run(codec.bytes, codec.reads[i] + 8, << >>,
                                           channel_map[chan].decoder)} :
                       /\ r.res >= 0
                       /\ codec.invoked[i].out = r.out
                       /\ codec.thrown \/ codec.ends[i] = codec.reads[i] + 8 + r.res

\* C21 happens: the engine called the processors of two frames of different
\* channels and returned.
C21_Witness ==
    /\ codec.op = "antelope"
    /\ ~codec.thrown
    /\ Len(codec.invoked) >= 2
    /\ codec.invoked[1].processor # codec.invoked[2].processor

\* C27: in SpecCodec, when the payload ends inside a frame of a transaction
\* channel, the engine ends with an error code and has called the processors
\* of the whole frames before it and no other.
C27_ShortFrameRejected ==
    (codec.op = "antelope" /\ codec.cut) =>
        /\ ~codec.thrown
        /\ codec.result < 0
        /\ Len(codec.invoked) = codec.whole

\* ------------------------------------------------------------------------
\* Properties of the purge of old records.
\* ------------------------------------------------------------------------
\* C22: in SpecPurge, every uplink of the device, once it is known, leaves no
\* record whose last fragment is more than 300 seconds old, keeps the younger
\* records (unless the uplink completes them), and adds no fragment to a
\* record that was more than 300 seconds old.
C22_OldRecordsPurged ==
    [][(epoch'.now = epoch.now /\ 1 \in device_states) =>
          /\ \A id \in DOMAIN trx_map' : epoch'.now - epoch'.written[id] <= 300
          /\ \A id \in DOMAIN trx_map' : epoch'.merged[id] <= 300
          /\ \A id \in DOMAIN trx_map :
                epoch.now - epoch.written[id] <= 300 =>
                    id \in DOMAIN trx_map' \/ last'.emitted > 0]_vars

\* ------------------------------------------------------------------------
\* Properties of the answers to the ingress requests.
\* ------------------------------------------------------------------------
\* C23: in SpecIngress, a downlink POST is pending only for a TAPOS request
\* of a chain that is known and for which a poll has succeeded (api_last is
\* set by the successful polls alone and is never unset).
C23_DownlinkNeedsTapos ==
    \A r \in DOMAIN responses :
        responses[r].downlink # null =>
            \A chain_id \in {responses[r].downlink[1]} :
                /\ chain_id \in DOMAIN CHAIN_KEY_FROM_ID
                /\ tapos_manager_state[CHAIN_KEY_FROM_ID[chain_id]].api_last # null

\* C24: in SpecIngressFair, every request whose handler returned without
\* ending its res has its res ended later.
C24_EveryRequestAnswered ==
    \A r \in 1 .. MaxItems + 1 :
        [](~crashed /\ r \in DOMAIN responses /\ responses[r].ends = 0
              => <>(crashed \/ r \notin DOMAIN responses \/ responses[r].ends > 0))

\* C30: in SpecIngress, the completion of a POST of a transaction or of a
\* downlink finds the res it holds not ended.
C30_EndedAtMostOnce ==
    [][/\ \A p \in in_flight \ in_flight' : responses[p.res].ends = 0
       /\ \A r \in DOMAIN responses :
             (/\ responses[r].downlink # null
              /\ r \in DOMAIN responses' => responses'[r].downlink = null) =>
                 responses[r].ends = 0]_vars

\* C29: in SpecIngressFair, an item that is marked started leaves its queue
\* later.
C29_StartedEventuallyRemoved ==
    \A i \in 1 .. MaxItems :
        [](i \in StartedItems(tapos_manager_state)
              => <>(\A k \in ChainKeys :
                       \A t \in 1 .. Len(tapos_manager_state[k].dispatch_queue) :
                          tapos_manager_state[k].dispatch_queue[t].item # i))

\* C25: in every reachable state and for every fragment that completes its
\* record and emits the transaction, the next fragment with the same id
\* leaves a record that holds that fragment alone and emits nothing, and of
\* the fragments that follow the emission, each in a call of its own, the
\* first three emit nothing and the fourth emits a transaction only if the
\* four are of the four kinds.
C25_EmittedRecordStartsEmpty ==
    \A fr \in {[p \in SinglePayloads |-> FrameOf(p)]} :
    \A p \in SinglePayloads :
        \A once \in {Apply(fr[p], Cur)} :
            (~once.thrown /\ once.dispatcher_queue # dispatcher_queue) =>
                \A p1 \in SinglePayloads :
                \A s1 \in {Apply(fr[p1], once)} :
                    /\ FrameId(fr[p1]) = FrameId(fr[p]) =>
                           /\ FrameId(fr[p]) \in DOMAIN s1.trx_map
                           /\ s1.trx_map[FrameId(fr[p])] = FreshRecord(fr[p1])
                    /\ s1.dispatcher_queue = once.dispatcher_queue
                    /\ \A p2 \in SinglePayloads :
                       \A s2 \in {Apply(fr[p2], s1)} :
                           /\ s2.dispatcher_queue = once.dispatcher_queue
                           /\ \A p3 \in SinglePayloads :
                              \A s3 \in {Apply(fr[p3], s2)} :
                                  /\ s3.dispatcher_queue = once.dispatcher_queue
                                  /\ \A p4 \in SinglePayloads :
                                         Apply(fr[p4], s3).dispatcher_queue
                                             # once.dispatcher_queue =>
                                             {fr[p1].processor, fr[p2].processor,
                                              fr[p3].processor, fr[p4].processor}
                                                 = {channel_map[k].processor : k \in Kinds}

\* C25 happens: the last call emitted a transaction and went on with one more
\* fragment of the same id, which is the only field of the record it left.
C25_Witness ==
    /\ last.emitted = 1
    /\ last.outcome = "ok"
    /\ ~last.twice
    /\ 5 \in DOMAIN trx_map
    /\ Cardinality({x \in Fields : trx_map[5][x] # null}) = 1

\* ------------------------------------------------------------------------
\* SpecIds: one device sends fragments with header bytes of all ids, with
\* and without the bits above the id set.
\* ------------------------------------------------------------------------
IdUplink ==
    \E bytes \in IdPayloads :
        Uplink(1, bytes) /\ UNCHANGED << plan, server_vars, codec, loop >>

NextIds == IdUplink

SpecIds == Init /\ [][NextIds]_vars

\* The ids of the records that differ between two tables.
Touched(before, after) ==
    {id \in DOMAIN before \cup DOMAIN after :
        \/ id \notin DOMAIN before
        \/ id \notin DOMAIN after
        \/ before[id] # after[id]}

\* C26: in SpecIds, the table holds at most 8 records and their keys are in
\* 0 .. 7; a fragment touches no record but the one of the low three bits of
\* its header byte and leaves a record there; and two fragments of one kind
\* whose header bytes have the same low three bits address the same record.
C26_RecordIsLowThreeBits ==
    /\ DOMAIN trx_map \subseteq 0 .. 7
    /\ Cardinality(DOMAIN trx_map) <= 8
    /\ \A fr \in {[p \in IdPayloads |-> FrameOf(p)]} :
       \A p \in IdPayloads :
       \A after \in {Apply(fr[p], Cur).trx_map} :
           /\ Touched(trx_map, after) \subseteq {fr[p].out[1] % 8}
           /\ fr[p].out[1] % 8 \in DOMAIN after
           /\ \A pg \in IdPayloads :
                  (/\ fr[pg].processor = fr[p].processor
                   /\ fr[pg].out[1] \div 8 # fr[p].out[1] \div 8
                   /\ fr[pg].out[1] % 8 = fr[p].out[1] % 8) =>
                      /\ DOMAIN Apply(fr[pg], Cur).trx_map = DOMAIN after
                      /\ Touched(after, Apply(fr[pg], [Cur EXCEPT !.trx_map = after]).trx_map)
                             = {}

\* C26 happens: the table holds 8 records, one of them made by a fragment
\* with a header byte above 7 and one by a fragment with a header byte below
\* 8, and the last fragment met a record that a fragment with another header
\* byte had made.
C26_Witness ==
    /\ Cardinality(DOMAIN trx_map) = 8
    /\ last.ignored
    /\ \E id \in DOMAIN trx_map : trx_map[id].tapos = Some(Fill(10, 34))
    /\ \E id \in DOMAIN trx_map : trx_map[id].tapos = Some(Fill(10, 17))

\* ------------------------------------------------------------------------
\* SpecTimers: the TAPOS manager from the load of the module, with replies of
\* get_info that may come after the timer of the next run has fired.
\* ------------------------------------------------------------------------
\* Lines 633-636: the loop that runs the manager of each chain once, in the
\* order of the table.
KickOff ==
    \E k \in ChainKeys, draws \in Draws :
        /\ timers[k] = 0
        /\ k = "TELOS_TESTNET" \/ timers["TELOS_TESTNET"] > 0
        /\ tapos_manager_run(k, draws)

\* The timers and the replies are served when the loop is over.
TimerFires ==
    \E k \in ChainKeys, draws \in Draws :
        /\ \A j \in ChainKeys : timers[j] > 0
        /\ tick.count < MaxRuns
        /\ Cardinality(requests) < MaxOverdue
        /\ tapos_manager_run(k, draws)

Reply ==
    /\ \A j \in ChainKeys : timers[j] > 0
    /\ \E p \in requests, response \in Responses : response_end(p, response)

NextTimers == KickOff \/ TimerFires \/ Reply

SpecTimers == Init /\ [][NextTimers]_vars

\* ------------------------------------------------------------------------
\* SpecLoop: the callbacks of the server one statement group at a time.  The
\* 'end' callback of a request (requestListener) calls decodeHelium, which
\* calls get_device_state with its purge, the decoder, push_trx and
\* manage_dispatch_queues one after the other without handing control back;
\* the callbacks of the POSTs and of the TAPOS managers are other entries of
\* the same event loop.  One device sends up to MaxUplinks uplinks, each with
\* the TAPOS or the ACTION of transaction 5; the decoder hands back a transaction
\* of the test chain or a record without one.
MaxUplinks == 3

LoopResults ==
    {d \in DecoderResults : d.kind \in {"incomplete", "trx"} /\ d.chain = 0}

LoopPayloads == {PayloadOf(<< k >>, [header |-> 5, chain |-> 1, content |-> 17]) : k \in 0 .. 1}

\* A runtime that starts a callback while another one is in progress.
Preemptive == TRUE

\* The event loop starts a callback when the call stack is empty: the
\* callbacks of the server contain no await and no yield.
LoopIdle ==
    loop.running = {}

Advance(f, g) == loop' = [loop EXCEPT !.running = (@ \ {f}) \cup {g}]

Return(f) == loop' = [loop EXCEPT !.running = @ \ {f}]

\* req.on('end'): the last chunk of a request arrived, its callback is ready.
End ==
    \E bytes \in LoopPayloads :
        /\ ~crashed
        /\ loop.arrived < MaxUplinks
        /\ loop' = [loop EXCEPT !.arrived = @ + 1,
                                !.queue = Append(@, [req |-> loop.arrived + 1,
                                                     key |-> 1, bytes |-> bytes])]
        /\ UNCHANGED << reassembler_vars, plan, server_vars, codec >>

\* The event loop calls the 'end' callback of the request that became ready
\* first.
Begin ==
    /\ ~crashed
    /\ LoopIdle
    /\ loop.queue # << >>
    /\ Emitted(dispatcher_queue) < MaxQueue
    /\ Cardinality(DOMAIN responses) <= MaxItems
    /\ \E e \in {Head(loop.queue)} :
          loop' = [loop EXCEPT !.queue = Tail(@),
                               !.running = @ \cup {[req |-> e.req, key |-> e.key,
                                                    bytes |-> e.bytes, step |-> "purge",
                                                    dresult |-> null, res |-> 0]}]
    /\ UNCHANGED << reassembler_vars, plan, server_vars, codec >>

\* decodeHelium, line 412: get_device_state and the purge of manage_device_state.
Purge ==
    \E f \in loop.running :
        /\ ~crashed
        /\ f.step = "purge"
        /\ device_states' = get_device_state(f.key)
        /\ trx_map' = IF f.key \in device_states
                      THEN manage_device_state(trx_map, epoch.now)
                      ELSE trx_map
        /\ Advance(f, [f EXCEPT !.step = "decode"])
        /\ UNCHANGED << dispatcher_queue, origin, last, epoch, plan, server_vars, codec >>

\* decodeHelium, line 414: the decoder applies the fragments of the payload.
\* An exception of a processor is caught by the callback, which answers 500
\* and returns.
DecodeStep ==
    \E f \in loop.running :
        /\ ~crashed
        /\ f.step = "decode"
        /\ decoder_call(f.key, trx_map, f.bytes)
        /\ IF last'.outcome = "thrown"
           THEN Return(f)
           ELSE \E dresult \in LoopResults :
                   /\ dresult.kind = "trx" => item_count < MaxItems
                   /\ Advance(f, [f EXCEPT !.step = "enqueue",
                                           !.dresult = Some(dresult)])
        /\ UNCHANGED << device_states, plan, server_vars, codec >>

\* decodeHelium, lines 422-467: push_trx of a transaction, or the answer.
Enqueue ==
    \E f \in loop.running :
        /\ ~crashed
        /\ f.step = "enqueue"
        /\ LET dresult == f.dresult[1]
               accepted == dresult.kind = "trx" /\ dispatch_get(dresult.chain) # null
               count == IF accepted THEN item_count + 1 ELSE item_count
               res == FreshRes(responses)
               answered ==
                   decodeHelium_answer(ELPP_PORT_LORAWAN, dresult, FALSE,
                                       tapos_manager_state) # null
           IN  /\ tapos_manager_state' =
                      IF dresult.kind = "trx"
                      THEN push_trx(tapos_manager_state, dresult.chain, item_count + 1)
                      ELSE tapos_manager_state
               /\ item_count' = count
               /\ posted' = [i \in 1 .. count |->
                                IF i \in DOMAIN posted THEN posted[i] ELSE 0]
               /\ responses' = responses @@ (res :> [ends |-> IF answered THEN 1 ELSE 0,
                                                     downlink |-> null])
               /\ Advance(f, [f EXCEPT !.step = "sweep", !.res = res])
        /\ UNCHANGED << in_flight, crashed, sweep, removal, manager_vars,
                        reassembler_vars, plan, codec >>

\* decodeHelium, line 469: manage_dispatch_queues(res), after which the
\* callback returns.
Sweep ==
    \E f \in loop.running :
        /\ ~crashed
        /\ f.step = "sweep"
        /\ \E posts \in {dispatch_trx(tapos_manager_state, f.res)} :
              /\ tapos_manager_state' = manage_dispatch_queues(tapos_manager_state)
              /\ in_flight' = in_flight \cup posts
              /\ responses' = Held(responses, in_flight \cup posts)
              /\ posted' = [i \in DOMAIN posted |->
                               posted[i] + Cardinality({p \in posts : p.item = i})]
              /\ sweep' = [posted |-> {p.item : p \in posts},
                           skipped |-> StartedItems(tapos_manager_state)]
        /\ Return(f)
        /\ UNCHANGED << crashed, item_count, removal, manager_vars, reassembler_vars,
                        plan, codec >>

\* The callbacks of a POST and of a get_info request, and the minutes between
\* two callbacks.
PostCallback == LoopIdle /\ Completion

ManagerCallback == LoopIdle /\ PollTestnet

Pause == LoopIdle /\ Wait

NextLoop ==
    \/ End \/ Begin \/ Purge \/ DecodeStep \/ Enqueue \/ Sweep
    \/ PostCallback \/ ManagerCallback \/ Pause

SpecLoop == Init /\ [][NextLoop]_vars

\* C28: in SpecTimers, every chain whose manager has run (an api of its pool
\* has been used) has exactly one pending run timer.
C28_OneTimerPerChain ==
    \A k \in ChainKeys :
        (\E i \in DOMAIN tapos_manager_state[k].api_pool :
            tapos_manager_state[k].api_pool[i].use_count > 0) => timers[k] = 1

\* ------------------------------------------------------------------------
\* Properties of the encoder and of the bit fields.
\* ------------------------------------------------------------------------
\* What the processors are to be called with for a channel list: for each
\* channel of the list, in order, its processor and the values of its
\* provider.
ExpectedFrames(list) ==
    [i \in 1 .. Len(list) |->
        [processor |-> decoder_map[list[i]].processor,
         out |-> encoder_map[list[i]].provider]]

\* C31: decoding the payload the encoder built for a channel list ends
\* without error and calls the processors of exactly the channels of the
\* list, in the order of the list, each with the values its provider gave,
\* also when a schema earlier in the list has a number of bits that is no
\* multiple of 8.
C31_ChannelListRoundtrip ==
    codec.op = "list" =>
        /\ codec.result = RESULT_OK
        /\ Len(codec.invoked) = Len(codec.list)
        /\ \A i \in 1 .. Len(codec.list) :
            /\ codec.invoked[i].processor = ExpectedFrames(codec.list)[i].processor
            /\ codec.invoked[i].out = ExpectedFrames(codec.list)[i].out

\* C32: a value above the largest value of a bit field decodes, after
\* encoding, as a value no smaller than the largest whole number of the
\* field's range, and a value below the smallest value of the field decodes
\* as the smallest value (0 for an unsigned field); a value of the range
\* decodes as itself.
C32_OverflowClamps ==
    codec.op = "bitfield" =>
        /\ codec.res = codec.args.i_bits + codec.args.f_bits
        /\ codec.scaled > LargestOf(codec.args) =>
              codec.out[1].scaled >=
                  LargestOf(codec.args) + 1 - Pow2(codec.args.f_bits)
        /\ codec.scaled < SmallestOf(codec.args) =>
              codec.out[1].scaled = SmallestOf(codec.args)
        /\ codec.scaled \in SmallestOf(codec.args) .. LargestOf(codec.args) =>
              codec.out[1].scaled = codec.scaled

\* C33: the encoder writes a varuint32 as 1 to 5 bytes of which the last,
\* and only the last, has the high bit clear, and the decoder takes at most
\* 5 bytes (40 bits) from a buffer, however many bytes with the
\* continuation bit set it holds.
C33_VaruintAtMostFiveBytes ==
    /\ codec.op = "varuint32_encoder" =>
          /\ Len(codec.bytes) \in 1 .. 5
          /\ \A i \in 1 .. Len(codec.bytes) :
                (codec.bytes[i] < 128) = (i = Len(codec.bytes))
    /\ codec.op = "varuint32_decoder" => codec.res <= 5 * 8

\* C34: a call of the engine makes at most one pass for each byte of the
\* payload; each pass ends at a higher bit index than it began at, and the
\* next pass begins at the byte boundary at or after that index; and the
\* call ends in success exactly when no pass ended in an error and the bit
\* index has reached the end of the payload.
C34_EngineTerminates ==
    (codec.op = "engine" \/ (codec.op = "antelope" /\ ~codec.thrown)) =>
        /\ Len(codec.reads) <= Len(codec.bytes)
        /\ Len(codec.ends) <= Len(codec.reads)
        /\ \A i \in 1 .. Len(codec.ends) : codec.reads[i] < codec.ends[i]
        /\ \A i \in 2 .. Len(codec.reads) :
               codec.reads[i] = realign(codec.ends[i - 1])
        /\ (codec.result = RESULT_OK) =
               (/\ Len(codec.ends) = Len(codec.reads)
                /\ \/ codec.bytes = << >>
                   \/ /\ codec.ends # << >>
                      /\ realign(codec.ends[Len(codec.ends)]) >= 8 * Len(codec.bytes))

\* A successful call of three passes, and a call that failed in its second
\* pass.
C34_Witness ==
    /\ codec.op = "engine"
    /\ \/ codec.result = RESULT_OK /\ Len(codec.reads) = 3
       \/ codec.result # RESULT_OK /\ Len(codec.reads) = 2

\* ------------------------------------------------------------------------
\* Properties of the pool counters and of the timers of the manager.
\* ------------------------------------------------------------------------
\* The entries of the pools: chain key and index.
PoolEntries == {<< k, i >> : k \in ChainKeys, i \in 1 .. 2}

\* C35: every pool entry has 0 <= check_count < CHECK_MAX and errors >= 0;
\* a step changes check_count only of an entry with errors >= ERRORS_MAX; a
\* selection in a pool takes one from errors of an entry of the pool exactly
\* when its check_count comes to CHECK_MAX, and then check_count is 0; and an entry that comes
\* into quarantine does so with check_count 0, a full CHECK_MAX selections
\* away from the next decay.
C35_DecayCounters ==
    /\ [](\A e \in PoolEntries :
            /\ tapos_manager_state[e[1]].api_pool[e[2]].check_count
                   \in 0 .. TAPOS_MANAGER_API_CHECK_MAX - 1
            /\ tapos_manager_state[e[1]].api_pool[e[2]].errors >= 0)
    /\ [][\A e \in PoolEntries :
            \A before \in {tapos_manager_state[e[1]].api_pool[e[2]]} :
            \A after \in {tapos_manager_state'[e[1]].api_pool[e[2]]} :
               /\ after.check_count # before.check_count =>
                      before.errors >= TAPOS_MANAGER_API_ERRORS_MAX
               /\ (tick'.count # tick.count /\ tick'.chain = e[1]) =>
                      /\ after.errors \in {before.errors, before.errors - 1}
                      /\ (after.errors = before.errors - 1) =
                            (/\ before.errors >= TAPOS_MANAGER_API_ERRORS_MAX
                             /\ before.check_count + 1 = TAPOS_MANAGER_API_CHECK_MAX)
                      /\ after.errors = before.errors - 1 => after.check_count = 0
               /\ (/\ before.errors < TAPOS_MANAGER_API_ERRORS_MAX
                   /\ after.errors >= TAPOS_MANAGER_API_ERRORS_MAX) =>
                      after.check_count = 0]_vars

\* C36: the timer a run sets for the next run of its chain has a period of
\* at least 5 minutes and less than 10 minutes; the timer set after a
\* failed poll has a period of at least 10 seconds and less than 30
\* seconds, and it takes the place of the timer the run of the poll had
\* set: the chain has as many pending timers after the error as before.
C36_NextTickDelay ==
    [][\A random \in 0 .. RandomSteps - 1 :
          /\ tick'.count # tick.count =>
                 tapos_manager_next_run(FALSE, random)
                     \in 5 * 60 * 1000 .. 10 * 60 * 1000 - 1
          /\ (ResponseStep /\ poll'.outcome # "success") =>
                 /\ tapos_manager_next_run(TRUE, random)
                        \in 10 * 1000 .. 30 * 1000 - 1
                 /\ timers'[poll'.chain] = timers[poll'.chain]]_vars

\* ------------------------------------------------------------------------
\* Properties of the ingress handler.
\* ------------------------------------------------------------------------
\* The items of a dispatch queue, in their order.
QueueItems(chain_q) == [t \in 1 .. Len(chain_q) |-> chain_q[t].item]

UnknownChains == {d.chain : d \in DecoderResults} \ DOMAIN CHAIN_KEY_FROM_ID

\* C38: the decoder call that completes a transaction of a chain id that is
\* not configured returns, so that the handler can answer for it: no call
\* ends in an exception with such a transaction complete in the table.
C38_UnknownChainAnswered ==
    last.outcome = "thrown" =>
        \A id \in DOMAIN trx_map :
            Complete(trx_map[id]) => trx_map[id].chain \in DOMAIN CHAIN_KEY_FROM_ID

\* C38, the handler's part: a step in which the handler is given a completed
\* transaction of a chain id that is not configured answers the request
\* with 500 'decoder: unknown chain', counts no new item, makes POSTs only
\* for items that were queued before, and leaves every queue with the items
\* it had.
HandlerDropsUnknownChain ==
    [][\A c \in UnknownChains :
          \/ ~decodeHelium(ELPP_PORT_LORAWAN, 1, [kind |-> "trx", chain |-> c], FALSE)
          \/ /\ decodeHelium_answer(ELPP_PORT_LORAWAN, [kind |-> "trx", chain |-> c],
                                    FALSE, tapos_manager_state)
                    = Some([status |-> 500, text |-> "decoder: unknown chain"])
             /\ item_count' = item_count
             /\ DOMAIN posted' = DOMAIN posted
             /\ \A p \in in_flight' \ in_flight : p.item \in 1 .. item_count
             /\ \A k \in ChainKeys :
                    QueueItems(tapos_manager_state'[k].dispatch_queue) =
                        QueueItems(tapos_manager_state[k].dispatch_queue)
             /\ \A r \in {FreshRes(responses)} :
                    r \in DOMAIN responses' => responses'[r].ends = 1]_vars

\* A request that its handler answered and whose res the sweep of the
\* handler gave to a POST, while both chains can dispatch.
HandlerAnsweredAndSwept ==
    /\ \E p \in in_flight : responses[p.res].ends = 1
    /\ \A k \in ChainKeys : CanDispatch(tapos_manager_state[k])

\* C39: a request on a port other than 8 is answered with 500 by the
\* handler and its step changes nothing: no device key is added, no record
\* and no queue is touched, no item is counted, no POST is made and no
\* sweep is recorded.
C39_WrongPortChangesNothing ==
    [][\A port \in Ports \ {8}, dresult \in DecoderResults, url \in BOOLEAN :
          \/ ~decodeHelium(port, 1, dresult, url)
          \/ /\ decodeHelium_answer(port, dresult, url, tapos_manager_state)
                    = Some([status |-> 500, text |-> "Unsupported port"])
             /\ UNCHANGED vars]_vars

\* A state in which a sweep would start an item: a request on another port
\* made here leaves the item as it is.
C39_Witness ==
    /\ ~crashed
    /\ device_states # {}
    /\ \E k \in ChainKeys :
          /\ CanDispatch(tapos_manager_state[k])
          /\ \E t \in 1 .. Len(tapos_manager_state[k].dispatch_queue) :
                 ~tapos_manager_state[k].dispatch_queue[t].started

\* The step is the next statement group of callback f, or its return.
OwnStep(f) ==
    \/ loop'.running = loop.running \ {f}
    \/ \E g \in loop'.running :
          /\ loop'.running = (loop.running \ {f}) \cup {g}
          /\ g.req = f.req
          /\ << f.step, g.step >> \in {<< "purge", "decode" >>, << "decode", "enqueue" >>,
                                       << "enqueue", "sweep" >>}

====
